---- MODULE Spec2Model ----
(***************************************************************************)
(* The HTTP control server of the x32dbg/x64dbg MCP plugin: the plugin     *)
(* entry points (pluginInit, pluginStop), the server thread with its       *)
(* accept loop, the request-line parser, the query parser, the parameter   *)
(* extractors, the dispatcher HandleRequest with every endpoint handler,   *)
(* and SendResponse.                                                       *)
(*                                                                         *)
(* A std::string is a sequence of one-character strings, so that find,     *)
(* substr, comparison, percent-decoding, number parsing and escaping are   *)
(* computed character by character as the code computes them.  A duint or  *)
(* an unsigned long long is a tuple of four 16-bit limbs, least            *)
(* significant first, so that the 64-bit range of std::stoull and the      *)
(* 32-bit duint of the x32 build keep their width.                         *)
(***************************************************************************)
EXTENDS Integers, Sequences, FiniteSets, TLC

VARIABLES
    arch,            \* 32 or 64: the build (_WIN64 undefined or defined)
    g_running,       \* bool g_running
    g_serverThread,  \* HANDLE g_serverThread: "NULL" or "thread"
    g_serverSocket,  \* SOCKET g_serverSocket: "INVALID_SOCKET" or "sock"
    listenSock,      \* the OS state of the listening socket handle
    hostPc,          \* position of the host (debugger) thread in pluginInit/pluginStop
    srvPc,           \* position of the server thread in ServerThread
    conns,           \* per client connection: its state and what was written to it
    registers,       \* the debuggee's registers, which Script::Register::Get and Set read and write
    input,           \* the argument a function of the program is applied to on its own
    applied,         \* the function that was applied to input ("none" before)
    output           \* what the function returned

vars == <<arch, g_running, g_serverThread, g_serverSocket, listenSock, hostPc,
          srvPc, conns, registers, input, applied, output>>

\* ---------------------------------------------------------------- bounds
MaxConns == 2        \* client connections over the run
MaxBytes == 2        \* bytes the engine reports for one memory read / assemble
MaxMatches == 2      \* pattern matches the engine finds in one /memory/search
MaxList == 1         \* records in a list the engine returns

\* ------------------------------------------------------ program constants
PLUGIN_VERSION == 3
MAX_READ_SIZE == 1048576      \* 1024 * 1024 in the /memory/read guard
DEFAULT_MAX_RESULTS == 100    \* int maxResults = 100 in HandleMemorySearch

\* ------------------------------------------------------------ std::string
SetMin(S) == CHOOSE x \in S : \A y \in S : x <= y

\* std::string::find(ch, pos) with 1-based positions; 0 stands for npos.
Find(str, ch, from) ==
    LET hits == {i \in from..Len(str) : str[i] = ch}
    IN  IF hits = {} THEN 0 ELSE SetMin(hits)

\* std::string::find("\r\n") and find("\r\n\r\n")
FindStr(str, pat) ==
    LET hits == {i \in 1..(Len(str) - Len(pat) + 1) :
                    \A k \in 1..Len(pat) : str[i + k - 1] = pat[k]}
    IN  IF hits = {} THEN 0 ELSE SetMin(hits)

\* std::string::substr(pos, n) (1-based pos) and substr(pos)
SubStr(str, pos, n) ==
    SubSeq(str, pos, IF pos + n - 1 > Len(str) THEN Len(str) ELSE pos + n - 1)

SubStrFrom(str, pos) == SubSeq(str, pos, Len(str))

LowerChars == <<"a","b","c","d","e","f","g","h","i","j","k","l","m","n","o","p","q","r","s","t","u","v","w","x","y","z">>
UpperChars == <<"A","B","C","D","E","F","G","H","I","J","K","L","M","N","O","P","Q","R","S","T","U","V","W","X","Y","Z">>

\* ::tolower on one character
ToLowerChar(c) ==
    IF \E i \in 1..26 : UpperChars[i] = c
    THEN LowerChars[CHOOSE i \in 1..26 : UpperChars[i] = c]
    ELSE c

\* std::transform(..., ::tolower)
ToLower(str) == [i \in 1..Len(str) |-> ToLowerChar(str[i])]

HexChars == <<"0","1","2","3","4","5","6","7","8","9","a","b","c","d","e","f">>
HexCharsUpper == <<"0","1","2","3","4","5","6","7","8","9","A","B","C","D","E","F">>

NotADigit == 16 * 16

\* the value of a digit character in strtoull/strtol; NotADigit for other characters
DigitVal(c) ==
    IF \E i \in 1..16 : HexChars[i] = c
    THEN (CHOOSE i \in 1..16 : HexChars[i] = c) - 1
    ELSE IF \E i \in 1..16 : HexCharsUpper[i] = c
    THEN (CHOOSE i \in 1..16 : HexCharsUpper[i] = c) - 1
    ELSE NotADigit

IsSpace(c) == c \in {" ", "\t", "\n", "\r", "\f"}

\* ---------------------------------------------- machine integers (limbs)
LimbBase == 256 * 256
Zero == <<0, 0, 0, 0>>

\* a small natural number as a 64-bit value
FromNat(n) == <<n % LimbBase, (n \div LimbBase) % LimbBase, 0, 0>>

\* x * base + d over 64 bits, with the overflow out of bit 63
MulAdd(x, base, d) ==
    LET t1 == x[1] * base + d
        t2 == x[2] * base + (t1 \div LimbBase)
        t3 == x[3] * base + (t2 \div LimbBase)
        t4 == x[4] * base + (t3 \div LimbBase)
    IN  [val |-> <<t1 % LimbBase, t2 % LimbBase, t3 % LimbBase, t4 % LimbBase>>,
         carry |-> (t4 \div LimbBase) > 0]

\* a + b modulo 2^64
Add64(a, b) ==
    LET t1 == a[1] + b[1]
        t2 == a[2] + b[2] + (t1 \div LimbBase)
        t3 == a[3] + b[3] + (t2 \div LimbBase)
        t4 == a[4] + b[4] + (t3 \div LimbBase)
    IN  <<t1 % LimbBase, t2 % LimbBase, t3 % LimbBase, t4 % LimbBase>>

\* -x modulo 2^64 (strtoull applies the sign to the unsigned result)
Neg64(x) == Add64([i \in 1..4 |-> LimbBase - 1 - x[i]], FromNat(1))

\* unsigned comparison a < b
Less(a, b) ==
    \E i \in 1..4 : a[i] < b[i] /\ \A j \in (i + 1)..4 : a[j] = b[j]

\* the implicit conversion unsigned long long -> duint: modulo 2^32 on the
\* x32 build (duint is unsigned long), unchanged on the x64 build
ToDuint(v, a) == [i \in 1..4 |-> IF i <= a \div 16 THEN v[i] ELSE 0]

\* the value as a TLC integer, for values below 2^31
ToNat(v) == v[1] + v[2] * LimbBase

FitsNat(v) == v[3] = 0 /\ v[4] = 0 /\ v[2] < LimbBase \div 2

\* ------------------------------------------------- strtoull / strtol core
RECURSIVE SkipSpaces(_, _)
SkipSpaces(str, i) ==
    IF i <= Len(str) /\ IsSpace(str[i]) THEN SkipSpaces(str, i + 1) ELSE i

RECURSIVE Accumulate(_, _, _, _, _, _)
\* the digit loop: consumes digits valid in the base, from position i
Accumulate(str, i, base, val, ovf, count) ==
    IF i > Len(str) \/ DigitVal(str[i]) >= base
    THEN [val |-> val, ovf |-> ovf, count |-> count]
    ELSE LET Step(m) == Accumulate(str, i + 1, base, m.val, ovf \/ m.carry, count + 1)
         IN  Step(MulAdd(val, base, DigitVal(str[i])))

\* The subject sequence of strtoull/strtol(str, &end, base) for base 0 or 16:
\* white space, an optional sign, an optional 0x/0X prefix (when a hex digit
\* follows), for base 0 a leading 0 selecting octal, then the digits.
\* neg: a minus sign was read; count: digits converted; ovf: beyond 2^64 - 1.
StrToMag(str, base) ==
    LET Digits(neg, s1, hexPrefix) ==
            LET Converted(r) ==
                    [neg |-> neg, val |-> r.val, ovf |-> r.ovf, count |-> r.count]
            IN  Converted(Accumulate(str,
                              IF hexPrefix THEN s1 + 2 ELSE s1,
                              IF base = 16 \/ hexPrefix THEN 16
                              ELSE IF s1 <= Len(str) /\ str[s1] = "0" THEN 8
                              ELSE 10,
                              Zero, FALSE, 0))
        Prefix(neg, s1) ==
            Digits(neg, s1, /\ s1 + 2 <= Len(str)
                            /\ str[s1] = "0"
                            /\ str[s1 + 1] \in {"x", "X"}
                            /\ DigitVal(str[s1 + 2]) < 16)
        Sign(s0) ==
            Prefix(s0 <= Len(str) /\ str[s0] = "-",
                   IF s0 <= Len(str) /\ str[s0] \in {"-", "+"} THEN s0 + 1 ELSE s0)
    IN  Sign(SkipSpaces(str, 1))

\* std::stoull(str, nullptr, 0): throws std::invalid_argument when nothing
\* converts and std::out_of_range on ERANGE; a minus sign negates modulo 2^64.
Stoull(str) ==
    LET Converted(m) ==
            IF m.count = 0 THEN [status |-> "invalid_argument", val |-> Zero]
            ELSE IF m.ovf THEN [status |-> "out_of_range", val |-> Zero]
            ELSE [status |-> "ok", val |-> IF m.neg THEN Neg64(m.val) ELSE m.val]
    IN  Converted(StrToMag(str, 0))

\* std::stoi(str, nullptr, base): strtol into a 32-bit long/int; the result is
\* a TLC integer.
Stoi(str, base) ==
    LET top == LimbBase \div 2
        Converted(m, isMin) ==
            IF m.count = 0 THEN [status |-> "invalid_argument", val |-> 0]
            ELSE IF m.ovf \/ ~(FitsNat(m.val) \/ (m.neg /\ isMin))
            THEN [status |-> "out_of_range", val |-> 0]
            ELSE [status |-> "ok",
                  val |-> IF m.neg
                          THEN (IF isMin THEN -(top - 1) * LimbBase - LimbBase
                                ELSE -ToNat(m.val))
                          ELSE ToNat(m.val)]
        Ranged(m) == Converted(m, m.val = <<0, top, 0, 0>>)
    IN  Ranged(StrToMag(str, base))

\* ------------------------------------------------------------- rendering
\* operator<< of a non-negative integer in decimal
RECURSIVE DecDigits(_)
DecDigits(n) ==
    IF n < 10 THEN <<HexChars[n + 1]>>
    ELSE DecDigits(n \div 10) \o <<HexChars[(n % 10) + 1]>>

\* operator<< of an int in decimal
ToDec(n) == IF n < 0 THEN <<"-">> \o DecDigits(-n) ELSE DecDigits(n)

HexOfLimb(l) ==
    <<HexChars[(l \div (16 * 256)) + 1], HexChars[((l \div 256) % 16) + 1],
      HexChars[((l \div 16) % 16) + 1], HexChars[(l % 16) + 1]>>

\* std::hex << value: lowercase digits, no leading zeros
HexDigits(v) ==
    LET Stripped(full, nz) == IF nz = {} THEN <<"0">> ELSE SubSeq(full, SetMin(nz), 16)
        Padded(full) == Stripped(full, {i \in 1..16 : full[i] # "0"})
    IN  Padded(HexOfLimb(v[4]) \o HexOfLimb(v[3]) \o HexOfLimb(v[2]) \o HexOfLimb(v[1]))

\* variant of ToHex: the sixteen digits of the value, leading zeros included
ToHexPadded(value) ==
    <<"0","x">> \o HexOfLimb(value[4]) \o HexOfLimb(value[3]) \o HexOfLimb(value[2])
    \o HexOfLimb(value[1])

ToHex(value) == <<"0","x">> \o HexDigits(value)

BoolToJson(value) == IF value THEN <<"t","r","u","e">> ELSE <<"f","a","l","s","e">>

\* variant of HexByte: without std::setw(2), a byte below 16 gets one digit
HexByteUnpadded(b) ==
    IF b < 16 THEN <<HexChars[b + 1]>>
    ELSE <<HexChars[(b \div 16) + 1], HexChars[(b % 16) + 1]>>

\* std::hex << std::setw(2) << std::setfill('0') << (int)byte
HexByte(b) == <<HexChars[(b \div 16) + 1], HexChars[(b % 16) + 1]>>

RECURSIVE HexBytes(_)
HexBytes(bytes) ==
    IF bytes = << >> THEN << >>
    ELSE HexByte(Head(bytes)) \o HexBytes(Tail(bytes))

\* variant of JsonEscapeChar: without the case for the backslash
JsonEscapeCharKeepingBackslash(c) ==
    CASE c = "\"" -> <<"\\","\"">>
      [] c = "\n" -> <<"\\","n">>
      [] c = "\r" -> <<"\\","r">>
      [] c = "\t" -> <<"\\","t">>
      [] OTHER -> <<c>>

JsonEscapeChar(c) ==
    CASE c = "\"" -> <<"\\","\"">>
      [] c = "\\" -> <<"\\","\\">>
      [] c = "\n" -> <<"\\","n">>
      [] c = "\r" -> <<"\\","r">>
      [] c = "\t" -> <<"\\","t">>
      [] OTHER -> <<c>>

RECURSIVE JsonEscape(_)
JsonEscape(str) ==
    IF str = << >> THEN << >>
    ELSE JsonEscapeChar(Head(str)) \o JsonEscape(Tail(str))

\* ----------------------------------------------------------- URL decoding
\* the characters with codes 32..126, in code order (the grave accent, code
\* 96, is written "<grave>")
Printable ==
    <<" ","!","\"","#","$","%","&","'","(",")","*","+",",","-",".","/","0","1","2","3","4","5","6","7","8","9",":",";","<","=",">","?","@","A","B","C","D","E","F","G","H","I","J","K","L","M","N","O","P","Q","R","S","T","U","V","W","X","Y","Z","[","\\","]","^","_","<grave>","a","b","c","d","e","f","g","h","i","j","k","l","m","n","o","p","q","r","s","t","u","v","w","x","y","z","{","|","}","~">>

\* static_cast<char>(value): the character with that code; codes outside
\* printable ASCII and \t \n \r are represented by one opaque character
CharOfByte(v) ==
    LET b == v % 256
    IN  IF b >= 32 /\ b <= 126 THEN Printable[b - 31]
        ELSE IF b = 9 THEN "\t"
        ELSE IF b = 10 THEN "\n"
        ELSE IF b = 13 THEN "\r"
        ELSE "<byte>"

\* std::istringstream is(two); is >> std::hex >> value, for a field of two
\* characters: white space is skipped, a sign is accepted, digits are read up
\* to the first character that is no hex digit, a bare 0x prefix fails.
HexField(two) ==
    LET Field(c1, c2, d1, d2) ==
            IF d1 < 16
            THEN IF c1 = "0" /\ c2 \in {"x", "X"} THEN [ok |-> FALSE, value |-> 0]
                 ELSE IF d2 < 16 THEN [ok |-> TRUE, value |-> 16 * d1 + d2]
                 ELSE [ok |-> TRUE, value |-> d1]
            ELSE IF IsSpace(c1) \/ c1 = "+"
            THEN [ok |-> d2 < 16, value |-> IF d2 < 16 THEN d2 ELSE 0]
            ELSE IF c1 = "-"
            THEN [ok |-> d2 < 16, value |-> IF d2 < 16 THEN 256 - d2 ELSE 0]
            ELSE [ok |-> FALSE, value |-> 0]
    IN  Field(two[1], two[2], DigitVal(two[1]), DigitVal(two[2]))

RECURSIVE UrlDecodeFromShort(_, _)
\* variant of UrlDecodeFrom: an escape is decoded only if a character follows
\* it, so that one at the end of the string is left as it is
UrlDecodeFromShort(str, i) ==
    IF i > Len(str) THEN << >>
    ELSE IF str[i] = "%" /\ i + 2 < Len(str)
    THEN LET Decoded(h) ==
                 IF h.ok THEN <<CharOfByte(h.value)>> \o UrlDecodeFromShort(str, i + 3)
                 ELSE <<str[i]>> \o UrlDecodeFromShort(str, i + 1)
         IN  Decoded(HexField(SubStr(str, i + 1, 2)))
    ELSE IF str[i] = "+" THEN <<" ">> \o UrlDecodeFromShort(str, i + 1)
    ELSE <<str[i]>> \o UrlDecodeFromShort(str, i + 1)

RECURSIVE UrlDecodeFrom(_, _)
\* the loop of UrlDecode from (1-based) position i
UrlDecodeFrom(str, i) ==
    IF i > Len(str) THEN << >>
    ELSE IF str[i] = "%" /\ i + 2 <= Len(str)
    THEN LET Decoded(h) ==
                 IF h.ok THEN <<CharOfByte(h.value)>> \o UrlDecodeFrom(str, i + 3)
                 ELSE <<str[i]>> \o UrlDecodeFrom(str, i + 1)
         IN  Decoded(HexField(SubStr(str, i + 1, 2)))
    ELSE IF str[i] = "+" THEN <<" ">> \o UrlDecodeFrom(str, i + 1)
    ELSE <<str[i]>> \o UrlDecodeFrom(str, i + 1)

UrlDecode(str) == UrlDecodeFrom(str, 1)

\* ----------------------------------------------------------- query parsing
\* variant of MapPut: insert only, a key that is present keeps its value
MapPutIfAbsent(params, key, value) ==
    [k \in DOMAIN params \cup {key} |-> IF k \in DOMAIN params THEN params[k] ELSE value]

\* params[key] = value on an unordered_map: insert or overwrite
MapPut(params, key, value) ==
    [k \in DOMAIN params \cup {key} |-> IF k = key THEN value ELSE params[k]]

EmptyMap == [k \in {} |-> << >>]

RECURSIVE ParseQueryFrom(_, _, _)
\* the while loop of ParseQuery from (1-based) position pos
ParseQueryFrom(query, pos, params) ==
    IF pos > Len(query) THEN params
    ELSE LET amp == Find(query, "&", pos)
             nextPos == IF amp = 0 THEN Len(query) + 1 ELSE amp
             pair == SubStr(query, pos, nextPos - pos)
             eqPos == Find(pair, "=", 1)
         IN  ParseQueryFrom(query, nextPos + 1,
                 IF eqPos # 0
                 THEN MapPut(params, UrlDecode(SubStr(pair, 1, eqPos - 1)),
                             UrlDecode(SubStrFrom(pair, eqPos + 1)))
                 ELSE params)

ParseQuery(query) == ParseQueryFrom(query, 1, EmptyMap)

\* ----------------------------------------------------- parameter extraction
\* variant of GetParam: an absent key reads as an empty value
GetParamDefaulted(params, key) ==
    [found |-> TRUE, value |-> IF key \in DOMAIN params THEN params[key] ELSE << >>]

\* bool GetParam(params, key, out): found, and the value copied to out
GetParam(params, key) ==
    IF key \in DOMAIN params
    THEN [found |-> TRUE, value |-> params[key]]
    ELSE [found |-> FALSE, value |-> << >>]

\* bool GetParamAddr(params, key, out): the std::stoull exception is caught
\* here (catch (...)) and reported as false; threw records that it was thrown
GetParamAddr(params, key, a) ==
    LET p == GetParam(params, key)
        Converted(n) ==
            IF n.status = "ok"
            THEN [ok |-> TRUE, value |-> ToDuint(n.val, a), threw |-> FALSE]
            ELSE [ok |-> FALSE, value |-> Zero, threw |-> TRUE]
    IN  IF ~p.found THEN [ok |-> FALSE, value |-> Zero, threw |-> FALSE]
        ELSE Converted(Stoull(p.value))

\* GetParamInt storing 0 in out when the conversion fails
GetParamIntResetting(params, key, dflt) ==
    LET p == GetParam(params, key)
        Converted(n) ==
            IF n.status = "ok" THEN [ok |-> TRUE, value |-> n.val, threw |-> FALSE]
            ELSE [ok |-> FALSE, value |-> 0, threw |-> TRUE]
    IN  IF ~p.found THEN [ok |-> FALSE, value |-> dflt, threw |-> FALSE]
        ELSE Converted(Stoi(p.value, 0))

\* bool GetParamInt(params, key, out): out keeps the caller's value dflt on failure
GetParamInt(params, key, dflt) ==
    LET p == GetParam(params, key)
        Converted(n) ==
            IF n.status = "ok" THEN [ok |-> TRUE, value |-> n.val, threw |-> FALSE]
            ELSE [ok |-> FALSE, value |-> dflt, threw |-> TRUE]
    IN  IF ~p.found THEN [ok |-> FALSE, value |-> dflt, threw |-> FALSE]
        ELSE Converted(Stoi(p.value, 0))

\* variant of GetParamBool: the value compared without regard to case
GetParamBoolAnyCase(params, key, dflt) ==
    LET p == GetParam(params, key)
    IN  IF ~p.found THEN [ok |-> FALSE, value |-> dflt]
        ELSE [ok |-> TRUE,
              value |-> ToLower(p.value) \in {<<"t","r","u","e">>, <<"1">>, <<"y","e","s">>}]

\* bool GetParamBool(params, key, out)
GetParamBool(params, key, dflt) ==
    LET p == GetParam(params, key)
    IN  IF ~p.found THEN [ok |-> FALSE, value |-> dflt]
        ELSE [ok |-> TRUE,
              value |-> p.value \in {<<"t","r","u","e">>, <<"1">>, <<"y","e","s">>}]

\* ------------------------------------------------------ register/flag names
Registers32 ==
    {<<"e","a","x">>, <<"e","b","x">>, <<"e","c","x">>, <<"e","d","x">>, <<"e","s","i">>, <<"e","d","i">>, <<"e","b","p">>, <<"e","s","p">>, <<"e","i","p">>}

Registers64 ==
    {<<"r","a","x">>, <<"r","b","x">>, <<"r","c","x">>, <<"r","d","x">>, <<"r","s","i">>, <<"r","d","i">>, <<"r","b","p">>, <<"r","s","p">>, <<"r","i","p">>,
     <<"r","8">>, <<"r","9">>, <<"r","1","0">>, <<"r","1","1">>, <<"r","1","2">>, <<"r","1","3">>, <<"r","1","4">>, <<"r","1","5">>}

\* ParseRegister comparing the name as it was sent
ParseRegisterExact(name, a) ==
    IF name \in Registers32 \/ (a = 64 /\ name \in Registers64)
    THEN [err |-> << >>, reg |-> name]
    ELSE [err |-> <<"U","n","k","n","o","w","n"," ","r","e","g","i","s","t","e","r",":"," ">> \o name, reg |-> << >>]

\* std::string ParseRegister(name, reg): the error text (empty on success)
\* and the register selected
ParseRegister(name, a) ==
    LET Lookup(lower) ==
            IF lower \in Registers32 \/ (a = 64 /\ lower \in Registers64)
            THEN [err |-> << >>, reg |-> lower]
            ELSE [err |-> <<"U","n","k","n","o","w","n"," ","r","e","g","i","s","t","e","r",":"," ">> \o name, reg |-> << >>]
    IN  Lookup(ToLower(name))

FlagNames == {<<"z","f">>, <<"o","f">>, <<"c","f">>, <<"p","f">>, <<"s","f">>, <<"t","f">>, <<"a","f">>, <<"d","f">>, <<"i","f">>}

\* bool ParseFlag(name, flag)
ParseFlag(name) ==
    LET Lookup(lower) ==
            IF lower \in FlagNames THEN [ok |-> TRUE, flag |-> lower]
            ELSE [ok |-> FALSE, flag |-> << >>]
    IN  Lookup(ToLower(name))

\* ------------------------------------------------------------ SendResponse
\* What SendResponse(client, code, contentType, body) hands to send(): the
\* status line is built from code, the headers from contentType and body.
StatusText(code) ==
    IF code = 200 THEN <<"O","K">>
    ELSE IF code = 400 THEN <<"B","a","d"," ","R","e","q","u","e","s","t">>
    ELSE IF code = 404 THEN <<"N","o","t"," ","F","o","u","n","d">>
    ELSE <<"I","n","t","e","r","n","a","l"," ","S","e","r","v","e","r"," ","E","r","r","o","r">>

SendResponse(code, contentType, body) ==
    [code |-> code, contentType |-> contentType, body |-> body]

\* variant of WireText: Content-Length counts the terminating NUL of c_str()
WireTextCountingNul(resp) ==
    <<"H","T","T","P","/","1",".","1"," ">> \o ToDec(resp.code) \o <<" ">> \o StatusText(resp.code) \o <<"\r","\n">>
    \o <<"C","o","n","t","e","n","t","-","T","y","p","e",":"," ">> \o resp.contentType \o <<"\r","\n">>
    \o <<"C","o","n","t","e","n","t","-","L","e","n","g","t","h",":"," ">> \o ToDec(Len(resp.body) + 1) \o <<"\r","\n">>
    \o <<"A","c","c","e","s","s","-","C","o","n","t","r","o","l","-","A","l","l","o","w","-","O","r","i","g","i","n",":"," ","*","\r","\n">>
    \o <<"C","o","n","n","e","c","t","i","o","n",":"," ","c","l","o","s","e","\r","\n","\r","\n">>
    \o resp.body

\* SendResponse serialises the response into one string and sends it once
WireText(resp) ==
    <<"H","T","T","P","/","1",".","1"," ">> \o ToDec(resp.code) \o <<" ">> \o StatusText(resp.code) \o <<"\r","\n">>
    \o <<"C","o","n","t","e","n","t","-","T","y","p","e",":"," ">> \o resp.contentType \o <<"\r","\n">>
    \o <<"C","o","n","t","e","n","t","-","L","e","n","g","t","h",":"," ">> \o ToDec(Len(resp.body)) \o <<"\r","\n">>
    \o <<"A","c","c","e","s","s","-","C","o","n","t","r","o","l","-","A","l","l","o","w","-","O","r","i","g","i","n",":"," ","*","\r","\n">>
    \o <<"C","o","n","n","e","c","t","i","o","n",":"," ","c","l","o","s","e","\r","\n","\r","\n">>
    \o resp.body

TextPlain == <<"t","e","x","t","/","p","l","a","i","n">>
AppJson == <<"a","p","p","l","i","c","a","t","i","o","n","/","j","s","o","n">>

\* ------------------------------------------------- a handler's next position
\* A handler runs until it has sent its response and returned ("done"), until
\* an exception leaves it ("throw"), or until it enters an engine operation
\* ("call"), from which it resumes with the operation's result.
NoLocals == [none |-> TRUE]

\* variant of Done: the handler returns without having called SendResponse
DoneUnsent(resp) ==
    [kind |-> "done", sent |-> << >>, what |-> << >>, op |-> "none",
     args |-> << >>, locals |-> [none |-> TRUE], caught |-> FALSE]

Done(resp) ==
    [kind |-> "done", sent |-> <<resp>>, what |-> << >>, op |-> "none",
     args |-> << >>, locals |-> NoLocals, caught |-> FALSE]

Throws(what) ==
    [kind |-> "throw", sent |-> << >>, what |-> what, op |-> "none",
     args |-> << >>, locals |-> NoLocals, caught |-> FALSE]

Calls(op, args, locals) ==
    [kind |-> "call", sent |-> << >>, what |-> << >>, op |-> op,
     args |-> args, locals |-> locals, caught |-> FALSE]

\* the handler position o, with the note that a parameter extractor
\* (GetParamAddr, GetParamInt) caught an exception of std::stoull / std::stoi
\* on the way: the extractors of a condition a || b || c run left to right and
\* stop at the first one that fails
Caught(flag, o) == [o EXCEPT !.caught = flag]

\* e.what() of the exception std::stoull / std::stoi throws
WhatOf(fn, status) ==
    IF status = "invalid_argument" THEN <<"i","n","v","a","l","i","d"," ">> \o fn \o <<" ","a","r","g","u","m","e","n","t">>
    ELSE fn \o <<" ","a","r","g","u","m","e","n","t"," ","o","u","t"," ","o","f"," ","r","a","n","g","e">>

\* {"success":<b>}
SuccessBody(b) == <<"{","\"","s","u","c","c","e","s","s","\"",":">> \o BoolToJson(b) \o <<"}">>

\* ------------------------------------------ endpoints handled in HandleRequest
\* variant of RouteStatusRet: /status answers after DbgIsDebugging alone
RouteStatusOneQuery(l, r) ==
    [kind |-> "done",
     sent |-> <<SendResponse(200, AppJson,
                    <<"{","\"","v","e","r","s","i","o","n","\"",":">> \o ToDec(PLUGIN_VERSION)
                    \o <<",","\"","d","e","b","u","g","g","i","n","g","\"",":">> \o BoolToJson(r.ok) \o <<"}">>)>>,
     what |-> << >>, op |-> "none", args |-> << >>, locals |-> [none |-> TRUE],
     caught |-> FALSE]

\* /status: two engine queries, DbgIsDebugging() then DbgIsRunning()
RouteStatus(a) ==
    Calls("DbgIsDebugging", << >>, [step |-> 1, debugging |-> FALSE, arch |-> a])

RouteStatusRet(l, r) ==
    IF l.step = 1
    THEN Calls("DbgIsRunning", << >>, [step |-> 2, debugging |-> r.ok, arch |-> l.arch])
    ELSE Done(SendResponse(200, AppJson,
            <<"{","\"","v","e","r","s","i","o","n","\"",":">> \o ToDec(PLUGIN_VERSION)
            \o <<",","\"","a","r","c","h","\"",":","\"">> \o (IF l.arch = 64 THEN <<"x","6","4">> ELSE <<"x","3","2">>) \o <<"\"">>
            \o <<",","\"","d","e","b","u","g","g","i","n","g","\"",":">> \o BoolToJson(l.debugging)
            \o <<",","\"","r","u","n","n","i","n","g","\"",":">> \o BoolToJson(r.ok)
            \o <<"}">>))

\* /cmd
RouteCmd(params) ==
    IF <<"c","m","d">> \notin DOMAIN params
    THEN Done(SendResponse(400, TextPlain, <<"M","i","s","s","i","n","g"," ","'","c","m","d","'"," ","p","a","r","a","m","e","t","e","r">>))
    ELSE Calls("DbgCmdExecDirect", <<params[<<"c","m","d">>]>>, [cmd |-> params[<<"c","m","d">>]])

\* RouteCmdRet writing the command as it was sent
RouteCmdRetUnescaped(l, r) ==
    Done(SendResponse(200, AppJson,
        <<"{","\"","s","u","c","c","e","s","s","\"",":">> \o BoolToJson(r.ok)
        \o <<",","\"","c","o","m","m","a","n","d","\"",":","\"">> \o l.cmd \o <<"\"","}">>))

RouteCmdRet(l, r) ==
    Done(SendResponse(200, AppJson,
        <<"{","\"","s","u","c","c","e","s","s","\"",":">> \o BoolToJson(r.ok)
        \o <<",","\"","c","o","m","m","a","n","d","\"",":","\"">> \o JsonEscape(l.cmd) \o <<"\"","}">>))

\* variant of RouteRegisterGet: the handler calls Script::Register::Set
RouteRegisterGetWriting(params, a) ==
    IF <<"n","a","m","e">> \notin DOMAIN params
    THEN Done(SendResponse(400, TextPlain, <<"M","i","s","s","i","n","g"," ","'","n","a","m","e","'"," ","p","a","r","a","m","e","t","e","r">>))
    ELSE LET p == ParseRegister(params[<<"n","a","m","e">>], a)
         IN  IF p.err # << >> THEN Done(SendResponse(400, TextPlain, p.err))
             ELSE Calls("Script::Register::Set", <<p.reg, FromNat(4096)>>,
                        [name |-> params[<<"n","a","m","e">>]])

\* /register/get
RouteRegisterGet(params, a) ==
    IF <<"n","a","m","e">> \notin DOMAIN params
    THEN Done(SendResponse(400, TextPlain, <<"M","i","s","s","i","n","g"," ","'","n","a","m","e","'"," ","p","a","r","a","m","e","t","e","r">>))
    ELSE LET p == ParseRegister(params[<<"n","a","m","e">>], a)
         IN  IF p.err # << >> THEN Done(SendResponse(400, TextPlain, p.err))
             ELSE Calls("Script::Register::Get", <<p.reg>>, [name |-> params[<<"n","a","m","e">>]])

RouteRegisterGetRet(l, r) ==
    Done(SendResponse(200, AppJson,
        <<"{","\"","r","e","g","i","s","t","e","r","\"",":","\"">> \o l.name \o <<"\"",",","\"","v","a","l","u","e","\"",":","\"">> \o ToHex(r.val) \o <<"\"","}">>))

\* /register/set
RouteRegisterSet(params, a) ==
    IF <<"n","a","m","e">> \notin DOMAIN params \/ <<"v","a","l","u","e">> \notin DOMAIN params
    THEN Done(SendResponse(400, TextPlain, <<"M","i","s","s","i","n","g"," ","'","n","a","m","e","'"," ","o","r"," ","'","v","a","l","u","e","'"," ","p","a","r","a","m","e","t","e","r">>))
    ELSE LET p == ParseRegister(params[<<"n","a","m","e">>], a)
             v == Stoull(params[<<"v","a","l","u","e">>])
         IN  IF p.err # << >> THEN Done(SendResponse(400, TextPlain, p.err))
             ELSE IF v.status # "ok" THEN Throws(WhatOf(<<"s","t","o","u","l","l">>, v.status))
             ELSE Calls("Script::Register::Set", <<p.reg, ToDuint(v.val, a)>>, NoLocals)

\* variant of RouteMemoryRead: no return after the "Size too large" response,
\* so that the handler goes on to the engine read
RouteMemoryReadFallThrough(params, a) ==
    IF <<"a","d","d","r">> \notin DOMAIN params \/ <<"s","i","z","e">> \notin DOMAIN params
    THEN Done(SendResponse(400, TextPlain, <<"M","i","s","s","i","n","g"," ","'","a","d","d","r","'"," ","o","r"," ","'","s","i","z","e","'"," ","p","a","r","a","m","e","t","e","r">>))
    ELSE LET ad == Stoull(params[<<"a","d","d","r">>])
             sz == Stoull(params[<<"s","i","z","e">>])
             addr == ToDuint(ad.val, a)
             size == ToDuint(sz.val, a)
             tooLarge == Less(FromNat(MAX_READ_SIZE), size)
         IN  IF ad.status # "ok" THEN Throws(WhatOf(<<"s","t","o","u","l","l">>, ad.status))
             ELSE IF sz.status # "ok" THEN Throws(WhatOf(<<"s","t","o","u","l","l">>, sz.status))
             ELSE [Calls("Script::Memory::Read", <<addr, size>>, [addr |-> addr])
                     EXCEPT !.sent = IF tooLarge
                                     THEN <<SendResponse(400, TextPlain,
                                                <<"S","i","z","e"," ","t","o","o"," ","l","a","r","g","e"," ","(","m","a","x"," ","1","M","B",")">>)>>
                                     ELSE << >>]

\* /memory/read
RouteMemoryRead(params, a) ==
    IF <<"a","d","d","r">> \notin DOMAIN params \/ <<"s","i","z","e">> \notin DOMAIN params
    THEN Done(SendResponse(400, TextPlain, <<"M","i","s","s","i","n","g"," ","'","a","d","d","r","'"," ","o","r"," ","'","s","i","z","e","'"," ","p","a","r","a","m","e","t","e","r">>))
    ELSE LET ad == Stoull(params[<<"a","d","d","r">>])
             sz == Stoull(params[<<"s","i","z","e">>])
             addr == ToDuint(ad.val, a)
             size == ToDuint(sz.val, a)
         IN  IF ad.status # "ok" THEN Throws(WhatOf(<<"s","t","o","u","l","l">>, ad.status))
             ELSE IF sz.status # "ok" THEN Throws(WhatOf(<<"s","t","o","u","l","l">>, sz.status))
             ELSE IF Less(FromNat(MAX_READ_SIZE), size)
             THEN Done(SendResponse(400, TextPlain, <<"S","i","z","e"," ","t","o","o"," ","l","a","r","g","e"," ","(","m","a","x"," ","1","M","B",")">>))
             ELSE Calls("Script::Memory::Read", <<addr, size>>, [addr |-> addr])

RouteMemoryReadRet(l, r) ==
    IF ~r.ok THEN Done(SendResponse(500, TextPlain, <<"F","a","i","l","e","d"," ","t","o"," ","r","e","a","d"," ","m","e","m","o","r","y">>))
    ELSE Done(SendResponse(200, AppJson,
            <<"{","\"","a","d","d","r","e","s","s","\"",":","\"">> \o ToHex(l.addr) \o <<"\"",",","\"","s","i","z","e","\"",":">> \o ToDec(r.n)
            \o <<",","\"","d","a","t","a","\"",":","\"">> \o HexBytes(r.bytes) \o <<"\"","}">>))

RECURSIVE HexToBytes(_, _, _)
\* the loop of /memory/write over hexData from (1-based) position i:
\* std::stoi(hexData.substr(i, 2), nullptr, 16) for every full pair
HexToBytes(hexData, i, buffer) ==
    IF i > Len(hexData) \/ i + 1 > Len(hexData)
    THEN [status |-> "ok", buffer |-> buffer]
    ELSE LET b == Stoi(SubStr(hexData, i, 2), 16)
         IN  IF b.status # "ok" THEN [status |-> b.status, buffer |-> buffer]
             ELSE HexToBytes(hexData, i + 2, Append(buffer, b.val % 256))

\* /memory/write
RouteMemoryWrite(params, a) ==
    IF <<"a","d","d","r">> \notin DOMAIN params \/ <<"d","a","t","a">> \notin DOMAIN params
    THEN Done(SendResponse(400, TextPlain, <<"M","i","s","s","i","n","g"," ","'","a","d","d","r","'"," ","o","r"," ","'","d","a","t","a","'"," ","p","a","r","a","m","e","t","e","r">>))
    ELSE LET ad == Stoull(params[<<"a","d","d","r">>])
             h == HexToBytes(params[<<"d","a","t","a">>], 1, << >>)
         IN  IF ad.status # "ok" THEN Throws(WhatOf(<<"s","t","o","u","l","l">>, ad.status))
             ELSE IF h.status # "ok" THEN Throws(WhatOf(<<"s","t","o","i">>, h.status))
             ELSE Calls("Script::Memory::Write", <<ToDuint(ad.val, a), h.buffer>>, NoLocals)

RouteMemoryWriteRet(l, r) ==
    Done(SendResponse(200, AppJson,
        <<"{","\"","s","u","c","c","e","s","s","\"",":">> \o BoolToJson(r.ok)
        \o <<",","\"","b","y","t","e","s","_","w","r","i","t","t","e","n","\"",":">> \o ToDec(r.n) \o <<"}">>))

\* /debug/run, /debug/pause, /debug/step, /debug/stepover, /debug/stepout
RouteDebug(op) == Calls(op, << >>, NoLocals)

RouteDebugRet(l, r) == Done(SendResponse(200, AppJson, <<"{","\"","s","u","c","c","e","s","s","\"",":","t","r","u","e","}">>))

\* /breakpoint/set and /breakpoint/delete
RouteBreakpoint(op, params, a) ==
    IF <<"a","d","d","r">> \notin DOMAIN params
    THEN Done(SendResponse(400, TextPlain, <<"M","i","s","s","i","n","g"," ","'","a","d","d","r","'"," ","p","a","r","a","m","e","t","e","r">>))
    ELSE LET ad == Stoull(params[<<"a","d","d","r">>])
         IN  IF ad.status # "ok" THEN Throws(WhatOf(<<"s","t","o","u","l","l">>, ad.status))
             ELSE Calls(op, <<ToDuint(ad.val, a)>>, NoLocals)

\* /disasm
RouteDisasm(params, a) ==
    IF <<"a","d","d","r">> \notin DOMAIN params
    THEN Done(SendResponse(400, TextPlain, <<"M","i","s","s","i","n","g"," ","'","a","d","d","r","'"," ","p","a","r","a","m","e","t","e","r">>))
    ELSE LET ad == Stoull(params[<<"a","d","d","r">>])
         IN  IF ad.status # "ok" THEN Throws(WhatOf(<<"s","t","o","u","l","l">>, ad.status))
             ELSE Calls("DbgDisasmAt", <<ToDuint(ad.val, a)>>,
                        [addr |-> ToDuint(ad.val, a)])

\* variant of RouteDisasmRet: the response without its "size" member
RouteDisasmRetUnsized(l, r) ==
    Done(SendResponse(200, AppJson,
        <<"{","\"","a","d","d","r","e","s","s","\"",":","\"">> \o ToHex(l.addr) \o <<"\"">>
        \o <<",","\"","i","n","s","t","r","u","c","t","i","o","n","\"",":","\"">> \o JsonEscape(r.text) \o <<"\"","}">>))

RouteDisasmRet(l, r) ==
    Done(SendResponse(200, AppJson,
        <<"{","\"","a","d","d","r","e","s","s","\"",":","\"">> \o ToHex(l.addr) \o <<"\"">>
        \o <<",","\"","i","n","s","t","r","u","c","t","i","o","n","\"",":","\"">> \o JsonEscape(r.text) \o <<"\"">>
        \o <<",","\"","s","i","z","e","\"",":">> \o ToDec(r.n) \o <<"}">>))

\* one record of a list response, by list kind
RenderItem(kind, it) ==
    CASE kind = "module" ->
            <<"{","\"","n","a","m","e","\"",":","\"">> \o JsonEscape(it.name) \o <<"\"">>
            \o <<",","\"","b","a","s","e","\"",":","\"">> \o ToHex(it.base) \o <<"\"">>
            \o <<",","\"","s","i","z","e","\"",":","\"">> \o ToHex(it.size) \o <<"\"">>
            \o <<",","\"","e","n","t","r","y","\"",":","\"">> \o ToHex(it.entry) \o <<"\"">>
            \o <<",","\"","p","a","t","h","\"",":","\"">> \o JsonEscape(it.path) \o <<"\"","}">>
      [] kind = "symbol" ->
            <<"{","\"","m","o","d","u","l","e","\"",":","\"">> \o JsonEscape(it.mod) \o <<"\"">>
            \o <<",","\"","r","v","a","\"",":","\"">> \o ToHex(it.rva) \o <<"\"">>
            \o <<",","\"","n","a","m","e","\"",":","\"">> \o JsonEscape(it.name) \o <<"\"">>
            \o <<",","\"","m","a","n","u","a","l","\"",":">> \o BoolToJson(it.manual)
            \o <<",","\"","t","y","p","e","\"",":","\"">>
            \o (CASE it.type = "Function" -> <<"f","u","n","c","t","i","o","n">>
                  [] it.type = "Import" -> <<"i","m","p","o","r","t">>
                  [] it.type = "Export" -> <<"e","x","p","o","r","t">>
                  [] OTHER -> <<"u","n","k","n","o","w","n">>)
            \o <<"\"","}">>
      [] kind \in {"label", "comment"} ->
            <<"{","\"","m","o","d","u","l","e","\"",":","\"">> \o JsonEscape(it.mod) \o <<"\"">>
            \o <<",","\"","r","v","a","\"",":","\"">> \o ToHex(it.rva) \o <<"\"">>
            \o <<",","\"","t","e","x","t","\"",":","\"">> \o JsonEscape(it.text) \o <<"\"">>
            \o <<",","\"","m","a","n","u","a","l","\"",":">> \o BoolToJson(it.manual) \o <<"}">>
      [] kind = "function" ->
            <<"{","\"","m","o","d","u","l","e","\"",":","\"">> \o JsonEscape(it.mod) \o <<"\"">>
            \o <<",","\"","r","v","a","_","s","t","a","r","t","\"",":","\"">> \o ToHex(it.rvaStart) \o <<"\"">>
            \o <<",","\"","r","v","a","_","e","n","d","\"",":","\"">> \o ToHex(it.rvaEnd) \o <<"\"">>
            \o <<",","\"","m","a","n","u","a","l","\"",":">> \o BoolToJson(it.manual)
            \o <<",","\"","i","n","s","t","r","u","c","t","i","o","n","_","c","o","u","n","t","\"",":">> \o ToDec(it.instructioncount) \o <<"}">>
      [] kind = "bookmark" ->
            <<"{","\"","m","o","d","u","l","e","\"",":","\"">> \o JsonEscape(it.mod) \o <<"\"">>
            \o <<",","\"","r","v","a","\"",":","\"">> \o ToHex(it.rva) \o <<"\"">>
            \o <<",","\"","m","a","n","u","a","l","\"",":">> \o BoolToJson(it.manual) \o <<"}">>

RECURSIVE RenderItems(_, _, _)
\* the for loop over the list: records separated by commas
RenderItems(kind, list, i) ==
    IF i > Len(list) THEN << >>
    ELSE (IF i > 1 THEN <<",">> ELSE << >>) \o RenderItem(kind, list[i])
         \o RenderItems(kind, list, i + 1)

\* variant of ListRet: a failed GetList is reported as the other endpoints
\* report a failure, in a 200 response
ListRetAsJson(kind, failText, r) ==
    Done(SendResponse(200, AppJson,
        IF ~r.ok THEN SuccessBody(FALSE) ELSE <<"[">> \o RenderItems(kind, r.list, 1) \o <<"]">>))

\* the response of a list endpoint once GetList has returned
ListRet(kind, failText, r) ==
    IF ~r.ok THEN Done(SendResponse(500, TextPlain, failText))
    ELSE Done(SendResponse(200, AppJson,
            <<"[">> \o RenderItems(kind, r.list, 1) \o <<"]">>))

\* /modules
RouteModules == Calls("Script::Module::GetList", << >>, NoLocals)

\* -------------------------------------------------- MCPHandlers::Pattern
\* a - b modulo the word size
SubWord(x, y, a) == ToDuint(Add64(x, Neg64(y)), a)

AddWord(x, y, a) == ToDuint(Add64(x, y), a)

HandleFindMem(params, a) ==
    LET start == GetParamAddr(params, <<"s","t","a","r","t">>, a)
        size == GetParamAddr(params, <<"s","i","z","e">>, a)
        pattern == GetParam(params, <<"p","a","t","t","e","r","n">>)
    IN  Caught(start.threw \/ (start.ok /\ size.threw),
            IF ~start.ok \/ ~size.ok \/ ~pattern.found
            THEN Done(SendResponse(400, TextPlain,
                    <<"M","i","s","s","i","n","g"," ","'","s","t","a","r","t","'",","," ","'","s","i","z","e","'",","," ","o","r"," ","'","p","a","t","t","e","r","n","'"," ","p","a","r","a","m","e","t","e","r">>))
            ELSE Calls("Script::Pattern::FindMem",
                       <<start.value, size.value, pattern.value>>, NoLocals))

HandleFindMemRet(l, r) ==
    Done(SendResponse(200, AppJson,
        <<"{","\"","f","o","u","n","d","\"",":">> \o BoolToJson(r.val # Zero)
        \o <<",","\"","a","d","d","r","e","s","s","\"",":","\"">> \o ToHex(r.val) \o <<"\"","}">>))

HandleSearchReplaceMem(params, a) ==
    LET start == GetParamAddr(params, <<"s","t","a","r","t">>, a)
        size == GetParamAddr(params, <<"s","i","z","e">>, a)
        search == GetParam(params, <<"s","e","a","r","c","h">>)
        replace == GetParam(params, <<"r","e","p","l","a","c","e">>)
    IN  Caught(start.threw \/ (start.ok /\ size.threw),
            IF ~start.ok \/ ~size.ok \/ ~search.found \/ ~replace.found
            THEN Done(SendResponse(400, TextPlain,
                    <<"M","i","s","s","i","n","g"," ","'","s","t","a","r","t","'",","," ","'","s","i","z","e","'",","," ","'","s","e","a","r","c","h","'",","," ","o","r"," ","'","r","e","p","l","a","c","e","'"," ","p","a","r","a","m","e","t","e","r">>))
            ELSE Calls("Script::Pattern::SearchAndReplaceMem",
                       <<start.value, size.value, search.value, replace.value>>, NoLocals))

RECURSIVE RenderResults(_, _)
\* the for loop over results: quoted hex addresses separated by commas
RenderResults(results, i) ==
    IF i > Len(results) THEN << >>
    ELSE (IF i > 1 THEN <<",">> ELSE << >>) \o <<"\"">> \o ToHex(results[i]) \o <<"\"">>
         \o RenderResults(results, i + 1)

\* the response of HandleMemorySearch after its loop
MemorySearchResponse(l) ==
    Done(SendResponse(200, AppJson,
        <<"{","\"","c","o","u","n","t","\"",":">> \o ToDec(Len(l.results)) \o <<",","\"","r","e","s","u","l","t","s","\"",":","[">>
        \o RenderResults(l.results, 1) \o <<"]","}">>))

\* MemorySearchLoop without the test searchAddr < endAddr
MemorySearchLoopUnguarded(l) ==
    IF l.maxResults < 0 \/ Len(l.results) < l.maxResults
    THEN Calls("Script::Pattern::FindMem",
               <<l.searchAddr, SubWord(l.endAddr, l.searchAddr, l.arch), l.pattern>>, l)
    ELSE MemorySearchResponse(l)

\* HandleMemorySearch at the top of its while loop: another FindMem call, or
\* the response; (size_t)maxResults of a negative int is above every size()
MemorySearchLoop(l) ==
    IF Less(l.searchAddr, l.endAddr)
       /\ (l.maxResults < 0 \/ Len(l.results) < l.maxResults)
    THEN Calls("Script::Pattern::FindMem",
               <<l.searchAddr, SubWord(l.endAddr, l.searchAddr, l.arch), l.pattern>>, l)
    ELSE MemorySearchResponse(l)

HandleMemorySearch(params, a) ==
    LET start == GetParamAddr(params, <<"s","t","a","r","t">>, a)
        size == GetParamAddr(params, <<"s","i","z","e">>, a)
        pattern == GetParam(params, <<"p","a","t","t","e","r","n">>)
        max == GetParamInt(params, <<"m","a","x">>, DEFAULT_MAX_RESULTS)
        valid == start.ok /\ size.ok /\ pattern.found
    IN  Caught(start.threw \/ (start.ok /\ size.threw) \/ (valid /\ max.threw),
            IF ~valid
            THEN Done(SendResponse(400, TextPlain,
                    <<"M","i","s","s","i","n","g"," ","'","s","t","a","r","t","'",","," ","'","s","i","z","e","'",","," ","o","r"," ","'","p","a","t","t","e","r","n","'"," ","p","a","r","a","m","e","t","e","r">>))
            ELSE MemorySearchLoop([results |-> << >>, searchAddr |-> start.value,
                                   endAddr |-> AddWord(start.value, size.value, a),
                                   maxResults |-> max.value, pattern |-> pattern.value,
                                   arch |-> a]))

\* HandleMemorySearchRet continuing the search at the match itself
HandleMemorySearchRetAtMatch(l, r) ==
    IF r.val = Zero THEN MemorySearchResponse(l)
    ELSE MemorySearchLoop([l EXCEPT !.results = Append(l.results, r.val),
                                    !.searchAddr = r.val])

HandleMemorySearchRet(l, r) ==
    IF r.val = Zero THEN MemorySearchResponse(l)
    ELSE MemorySearchLoop([l EXCEPT !.results = Append(l.results, r.val),
                                    !.searchAddr = AddWord(r.val, FromNat(1), l.arch)])

\* -------------------------------------------------- MCPHandlers::Annotation
HandleSymbolsList == Calls("Script::Symbol::GetList", << >>, NoLocals)

\* a handler whose only required parameter is the address addr
AddrHandler(op, params, a) ==
    LET addr == GetParamAddr(params, <<"a","d","d","r">>, a)
    IN  Caught(addr.threw,
            IF ~addr.ok
            THEN Done(SendResponse(400, TextPlain, <<"M","i","s","s","i","n","g"," ","'","a","d","d","r","'"," ","p","a","r","a","m","e","t","e","r">>))
            ELSE Calls(op, <<addr.value>>, NoLocals))

\* a handler with the required parameters addr and text and the optional manual
AddrTextHandler(op, params, a) ==
    LET addr == GetParamAddr(params, <<"a","d","d","r">>, a)
        text == GetParam(params, <<"t","e","x","t">>)
        manual == GetParamBool(params, <<"m","a","n","u","a","l">>, FALSE)
    IN  Caught(addr.threw,
            IF ~addr.ok \/ ~text.found
            THEN Done(SendResponse(400, TextPlain, <<"M","i","s","s","i","n","g"," ","'","a","d","d","r","'"," ","o","r"," ","'","t","e","x","t","'"," ","p","a","r","a","m","e","t","e","r">>))
            ELSE Calls(op, <<addr.value, text.value, manual.value>>, NoLocals))

\* {"success":<b>,"text":"<escaped text>"}
SuccessTextRet(r) ==
    Done(SendResponse(200, AppJson,
        <<"{","\"","s","u","c","c","e","s","s","\"",":">> \o BoolToJson(r.ok)
        \o <<",","\"","t","e","x","t","\"",":","\"">> \o JsonEscape(r.text) \o <<"\"","}">>))

SuccessRet(r) == Done(SendResponse(200, AppJson, SuccessBody(r.ok)))

HandleLabelSet(params, a) == AddrTextHandler("Script::Label::Set", params, a)

HandleLabelGet(params, a) == AddrHandler("Script::Label::Get", params, a)

HandleLabelDelete(params, a) == AddrHandler("Script::Label::Delete", params, a)

HandleLabelFromString(params) ==
    LET label == GetParam(params, <<"l","a","b","e","l">>)
    IN  IF ~label.found
        THEN Done(SendResponse(400, TextPlain, <<"M","i","s","s","i","n","g"," ","'","l","a","b","e","l","'"," ","p","a","r","a","m","e","t","e","r">>))
        ELSE Calls("Script::Label::FromString", <<label.value>>, NoLocals)

HandleLabelFromStringRet(l, r) ==
    Done(SendResponse(200, AppJson,
        <<"{","\"","s","u","c","c","e","s","s","\"",":">> \o BoolToJson(r.ok)
        \o <<",","\"","a","d","d","r","e","s","s","\"",":","\"">> \o ToHex(r.val) \o <<"\"","}">>))

HandleLabelList == Calls("Script::Label::GetList", << >>, NoLocals)

HandleCommentSet(params, a) == AddrTextHandler("Script::Comment::Set", params, a)

HandleCommentGet(params, a) == AddrHandler("Script::Comment::Get", params, a)

HandleCommentDelete(params, a) == AddrHandler("Script::Comment::Delete", params, a)

HandleCommentList == Calls("Script::Comment::GetList", << >>, NoLocals)

\* -------------------------------------------------- MCPHandlers::Stack
HandleStackPush(params, a) ==
    LET value == GetParamAddr(params, <<"v","a","l","u","e">>, a)
    IN  Caught(value.threw,
            IF ~value.ok
            THEN Done(SendResponse(400, TextPlain, <<"M","i","s","s","i","n","g"," ","'","v","a","l","u","e","'"," ","p","a","r","a","m","e","t","e","r">>))
            ELSE Calls("Script::Stack::Push", <<value.value>>, NoLocals))

HandleStackPushRet(l, r) ==
    Done(SendResponse(200, AppJson,
        <<"{","\"","s","u","c","c","e","s","s","\"",":","t","r","u","e">> \o <<",","\"","p","r","e","v","i","o","u","s","_","t","o","p","\"",":","\"">> \o ToHex(r.val) \o <<"\"","}">>))

HandleStackPop == Calls("Script::Stack::Pop", << >>, NoLocals)

HandleStackPopRet(l, r) ==
    Done(SendResponse(200, AppJson,
        <<"{","\"","s","u","c","c","e","s","s","\"",":","t","r","u","e">> \o <<",","\"","v","a","l","u","e","\"",":","\"">> \o ToHex(r.val) \o <<"\"","}">>))

\* HandleStackPeek taking the value off the stack
HandleStackPeekPopping(params) ==
    LET offset == GetParamInt(params, <<"o","f","f","s","e","t">>, 0)
    IN  Caught(offset.threw,
            Calls("Script::Stack::Pop", << >>, [offset |-> offset.value]))

HandleStackPeek(params) ==
    LET offset == GetParamInt(params, <<"o","f","f","s","e","t">>, 0)
    IN  Caught(offset.threw,
            Calls("Script::Stack::Peek", <<offset.value>>, [offset |-> offset.value]))

HandleStackPeekRet(l, r) ==
    Done(SendResponse(200, AppJson,
        <<"{","\"","s","u","c","c","e","s","s","\"",":","t","r","u","e">> \o <<",","\"","o","f","f","s","e","t","\"",":">> \o ToDec(l.offset)
        \o <<",","\"","v","a","l","u","e","\"",":","\"">> \o ToHex(r.val) \o <<"\"","}">>))

\* -------------------------------------------------- MCPHandlers::Function
HandleFunctionAdd(params, a) ==
    LET start == GetParamAddr(params, <<"s","t","a","r","t">>, a)
        end == GetParamAddr(params, <<"e","n","d">>, a)
        manual == GetParamBool(params, <<"m","a","n","u","a","l">>, FALSE)
        instructionCount == GetParamInt(params, <<"i","n","s","t","r","u","c","t","i","o","n","_","c","o","u","n","t">>, 0)
    IN  Caught(start.threw \/ (start.ok /\ end.threw)
                   \/ (start.ok /\ end.ok /\ instructionCount.threw),
            IF ~start.ok \/ ~end.ok
            THEN Done(SendResponse(400, TextPlain, <<"M","i","s","s","i","n","g"," ","'","s","t","a","r","t","'"," ","o","r"," ","'","e","n","d","'"," ","p","a","r","a","m","e","t","e","r">>))
            ELSE Calls("Script::Function::Add",
                       <<start.value, end.value, manual.value, instructionCount.value>>,
                       NoLocals))

HandleFunctionGet(params, a) == AddrHandler("Script::Function::Get", params, a)

HandleFunctionGetRet(l, r) ==
    Done(SendResponse(200, AppJson,
        <<"{","\"","s","u","c","c","e","s","s","\"",":">> \o BoolToJson(r.ok)
        \o <<",","\"","s","t","a","r","t","\"",":","\"">> \o ToHex(r.val) \o <<"\"">>
        \o <<",","\"","e","n","d","\"",":","\"">> \o ToHex(r.val2) \o <<"\"">>
        \o <<",","\"","i","n","s","t","r","u","c","t","i","o","n","_","c","o","u","n","t","\"",":">> \o ToDec(r.n) \o <<"}">>))

HandleFunctionDelete(params, a) == AddrHandler("Script::Function::Delete", params, a)

HandleFunctionList == Calls("Script::Function::GetList", << >>, NoLocals)

HandleBookmarkSet(params, a) ==
    LET addr == GetParamAddr(params, <<"a","d","d","r">>, a)
        manual == GetParamBool(params, <<"m","a","n","u","a","l">>, FALSE)
    IN  Caught(addr.threw,
            IF ~addr.ok
            THEN Done(SendResponse(400, TextPlain, <<"M","i","s","s","i","n","g"," ","'","a","d","d","r","'"," ","p","a","r","a","m","e","t","e","r">>))
            ELSE Calls("Script::Bookmark::Set", <<addr.value, manual.value>>, NoLocals))

HandleBookmarkGet(params, a) == AddrHandler("Script::Bookmark::Get", params, a)

HandleBookmarkGetRet(l, r) ==
    Done(SendResponse(200, AppJson, <<"{","\"","e","x","i","s","t","s","\"",":">> \o BoolToJson(r.ok) \o <<"}">>))

HandleBookmarkDelete(params, a) == AddrHandler("Script::Bookmark::Delete", params, a)

HandleBookmarkList == Calls("Script::Bookmark::GetList", << >>, NoLocals)

\* -------------------------------------------------- MCPHandlers::Misc
HandleParseExpression(params) ==
    LET expression == GetParam(params, <<"e","x","p","r">>)
    IN  IF ~expression.found
        THEN Done(SendResponse(400, TextPlain, <<"M","i","s","s","i","n","g"," ","'","e","x","p","r","'"," ","p","a","r","a","m","e","t","e","r">>))
        ELSE Calls("Script::Misc::ParseExpression", <<expression.value>>,
                   [expression |-> expression.value])

HandleParseExpressionRet(l, r) ==
    Done(SendResponse(200, AppJson,
        <<"{","\"","s","u","c","c","e","s","s","\"",":">> \o BoolToJson(r.ok)
        \o <<",","\"","e","x","p","r","e","s","s","i","o","n","\"",":","\"">> \o JsonEscape(l.expression) \o <<"\"">>
        \o <<",","\"","v","a","l","u","e","\"",":","\"">> \o ToHex(r.val) \o <<"\"","}">>))

HandleResolveLabel(params) ==
    LET label == GetParam(params, <<"l","a","b","e","l">>)
    IN  IF ~label.found
        THEN Done(SendResponse(400, TextPlain, <<"M","i","s","s","i","n","g"," ","'","l","a","b","e","l","'"," ","p","a","r","a","m","e","t","e","r">>))
        ELSE Calls("Script::Misc::ResolveLabel", <<label.value>>, [label |-> label.value])

HandleResolveLabelRet(l, r) ==
    Done(SendResponse(200, AppJson,
        <<"{","\"","s","u","c","c","e","s","s","\"",":">> \o BoolToJson(r.val # Zero)
        \o <<",","\"","l","a","b","e","l","\"",":","\"">> \o JsonEscape(l.label) \o <<"\"">>
        \o <<",","\"","a","d","d","r","e","s","s","\"",":","\"">> \o ToHex(r.val) \o <<"\"","}">>))

HandleGetProcAddress(params) ==
    LET module == GetParam(params, <<"m","o","d","u","l","e">>)
        api == GetParam(params, <<"a","p","i">>)
    IN  IF ~module.found \/ ~api.found
        THEN Done(SendResponse(400, TextPlain, <<"M","i","s","s","i","n","g"," ","'","m","o","d","u","l","e","'"," ","o","r"," ","'","a","p","i","'"," ","p","a","r","a","m","e","t","e","r">>))
        ELSE Calls("Script::Misc::RemoteGetProcAddress", <<module.value, api.value>>,
                   [module |-> module.value, api |-> api.value])

HandleGetProcAddressRet(l, r) ==
    Done(SendResponse(200, AppJson,
        <<"{","\"","s","u","c","c","e","s","s","\"",":">> \o BoolToJson(r.val # Zero)
        \o <<",","\"","m","o","d","u","l","e","\"",":","\"">> \o JsonEscape(l.module) \o <<"\"">>
        \o <<",","\"","a","p","i","\"",":","\"">> \o JsonEscape(l.api) \o <<"\"">>
        \o <<",","\"","a","d","d","r","e","s","s","\"",":","\"">> \o ToHex(r.val) \o <<"\"","}">>))

\* -------------------------------------------------- MCPHandlers::Assembler
AddrInstructionHandler(op, params, a) ==
    LET addr == GetParamAddr(params, <<"a","d","d","r">>, a)
        instruction == GetParam(params, <<"i","n","s","t","r","u","c","t","i","o","n">>)
    IN  Caught(addr.threw,
            IF ~addr.ok \/ ~instruction.found
            THEN Done(SendResponse(400, TextPlain,
                    <<"M","i","s","s","i","n","g"," ","'","a","d","d","r","'"," ","o","r"," ","'","i","n","s","t","r","u","c","t","i","o","n","'"," ","p","a","r","a","m","e","t","e","r">>))
            ELSE Calls(op, <<addr.value, instruction.value>>, NoLocals))

HandleAssembleMem(params, a) ==
    AddrInstructionHandler("Script::Assembler::AssembleMem", params, a)

HandleAssemble(params, a) ==
    AddrInstructionHandler("Script::Assembler::Assemble", params, a)

HandleAssembleRet(l, r) ==
    Done(SendResponse(200, AppJson,
        <<"{","\"","s","u","c","c","e","s","s","\"",":">> \o BoolToJson(r.ok)
        \o <<",","\"","s","i","z","e","\"",":">> \o ToDec(r.n)
        \o <<",","\"","b","y","t","e","s","\"",":","\"">> \o HexBytes(r.bytes) \o <<"\"","}">>))

\* -------------------------------------------------- MCPHandlers::Flags
InvalidFlagText == <<"I","n","v","a","l","i","d"," ","f","l","a","g"," ","n","a","m","e"," ","(","u","s","e",":"," ","Z","F",","," ","O","F",","," ","C","F",","," ","P","F",","," ","S","F",","," ","T","F",","," ","A","F",","," ","D","F",","," ","I","F",")">>

HandleFlagGet(params) ==
    LET flagName == GetParam(params, <<"f","l","a","g">>)
        f == ParseFlag(flagName.value)
    IN  IF ~flagName.found
        THEN Done(SendResponse(400, TextPlain, <<"M","i","s","s","i","n","g"," ","'","f","l","a","g","'"," ","p","a","r","a","m","e","t","e","r">>))
        ELSE IF ~f.ok THEN Done(SendResponse(400, TextPlain, InvalidFlagText))
        ELSE Calls("Script::Flag::Get", <<f.flag>>, [flagName |-> flagName.value])

HandleFlagGetRet(l, r) ==
    Done(SendResponse(200, AppJson,
        <<"{","\"","f","l","a","g","\"",":","\"">> \o l.flagName \o <<"\"">>
        \o <<",","\"","v","a","l","u","e","\"",":">> \o BoolToJson(r.ok) \o <<"}">>))

HandleFlagSet(params) ==
    LET flagName == GetParam(params, <<"f","l","a","g">>)
        value == GetParamBool(params, <<"v","a","l","u","e">>, FALSE)
        f == ParseFlag(flagName.value)
    IN  IF ~flagName.found \/ ~value.ok
        THEN Done(SendResponse(400, TextPlain, <<"M","i","s","s","i","n","g"," ","'","f","l","a","g","'"," ","o","r"," ","'","v","a","l","u","e","'"," ","p","a","r","a","m","e","t","e","r">>))
        ELSE IF ~f.ok THEN Done(SendResponse(400, TextPlain, InvalidFlagText))
        ELSE Calls("Script::Flag::Set", <<f.flag, value.value>>, NoLocals)

\* the nine flags in the order HandleFlagsGetAll writes them
AllFlags == <<"ZF", "OF", "CF", "PF", "SF", "TF", "AF", "DF", "IF">>

AllFlagNames == <<<<"Z","F">>, <<"O","F">>, <<"C","F">>, <<"P","F">>, <<"S","F">>, <<"T","F">>, <<"A","F">>, <<"D","F">>, <<"I","F">>>>

\* HandleFlagsGetAll: one engine call per flag, Script::Flag::GetZF() .. GetIF()
HandleFlagsGetAll ==
    Calls("Script::Flag::Get" \o AllFlags[1], << >>, [step |-> 1, body |-> <<"{">>])

HandleFlagsGetAllRet(l, r) ==
    LET body == l.body \o <<"\"">> \o AllFlagNames[l.step] \o <<"\"",":">> \o BoolToJson(r.ok)
    IN  IF l.step < Len(AllFlags)
        THEN Calls("Script::Flag::Get" \o AllFlags[l.step + 1], << >>,
                   [step |-> l.step + 1, body |-> body \o <<",">>])
        ELSE Done(SendResponse(200, AppJson, body \o <<"}">>))

\* ------------------------------------------------------------ HandleRequest
\* variant of PathIs: a comparison that ignores letter case
PathIsIgnoringCase(path, route) == ToLower(path) = ToLower(route)

\* variant of PathIs: path starts with the route (compare(0, n, route) == 0)
PathIsPrefix(path, route) == SubStr(path, 1, Len(route)) = route

\* The if / else-if chain of HandleRequest: the handler selected by the path,
\* run up to its first engine call or to its response.
\* the comparison path == "<route>" on std::string: equal character by character
PathIs(path, route) == path = route

RouteStart(path, params, a) ==
    IF PathIs(path, <<"/","s","t","a","t","u","s">>) THEN RouteStatus(a)
    ELSE IF PathIs(path, <<"/","c","m","d">>) THEN RouteCmd(params)
    ELSE IF PathIs(path, <<"/","r","e","g","i","s","t","e","r","/","g","e","t">>) THEN RouteRegisterGet(params, a)
    ELSE IF PathIs(path, <<"/","r","e","g","i","s","t","e","r","/","s","e","t">>) THEN RouteRegisterSet(params, a)
    ELSE IF PathIs(path, <<"/","m","e","m","o","r","y","/","r","e","a","d">>) THEN RouteMemoryRead(params, a)
    ELSE IF PathIs(path, <<"/","m","e","m","o","r","y","/","w","r","i","t","e">>) THEN RouteMemoryWrite(params, a)
    ELSE IF PathIs(path, <<"/","p","a","t","t","e","r","n","/","f","i","n","d","_","m","e","m">>) THEN HandleFindMem(params, a)
    ELSE IF PathIs(path, <<"/","p","a","t","t","e","r","n","/","s","e","a","r","c","h","_","r","e","p","l","a","c","e","_","m","e","m">>) THEN HandleSearchReplaceMem(params, a)
    ELSE IF PathIs(path, <<"/","m","e","m","o","r","y","/","s","e","a","r","c","h">>) THEN HandleMemorySearch(params, a)
    ELSE IF PathIs(path, <<"/","d","e","b","u","g","/","r","u","n">>) THEN RouteDebug("Script::Debug::Run")
    ELSE IF PathIs(path, <<"/","d","e","b","u","g","/","p","a","u","s","e">>) THEN RouteDebug("Script::Debug::Pause")
    ELSE IF PathIs(path, <<"/","d","e","b","u","g","/","s","t","e","p">>) THEN RouteDebug("Script::Debug::StepIn")
    ELSE IF PathIs(path, <<"/","d","e","b","u","g","/","s","t","e","p","o","v","e","r">>) THEN RouteDebug("Script::Debug::StepOver")
    ELSE IF PathIs(path, <<"/","d","e","b","u","g","/","s","t","e","p","o","u","t">>) THEN RouteDebug("Script::Debug::StepOut")
    ELSE IF PathIs(path, <<"/","b","r","e","a","k","p","o","i","n","t","/","s","e","t">>)
    THEN RouteBreakpoint("Script::Debug::SetBreakpoint", params, a)
    ELSE IF PathIs(path, <<"/","b","r","e","a","k","p","o","i","n","t","/","d","e","l","e","t","e">>)
    THEN RouteBreakpoint("Script::Debug::DeleteBreakpoint", params, a)
    ELSE IF PathIs(path, <<"/","d","i","s","a","s","m">>) THEN RouteDisasm(params, a)
    ELSE IF PathIs(path, <<"/","m","o","d","u","l","e","s">>) THEN RouteModules
    ELSE IF PathIs(path, <<"/","s","y","m","b","o","l","s","/","l","i","s","t">>) THEN HandleSymbolsList
    ELSE IF PathIs(path, <<"/","l","a","b","e","l","/","s","e","t">>) THEN HandleLabelSet(params, a)
    ELSE IF PathIs(path, <<"/","l","a","b","e","l","/","g","e","t">>) THEN HandleLabelGet(params, a)
    ELSE IF PathIs(path, <<"/","l","a","b","e","l","/","d","e","l","e","t","e">>) THEN HandleLabelDelete(params, a)
    ELSE IF PathIs(path, <<"/","l","a","b","e","l","/","f","r","o","m","_","s","t","r","i","n","g">>) THEN HandleLabelFromString(params)
    ELSE IF PathIs(path, <<"/","l","a","b","e","l","/","l","i","s","t">>) THEN HandleLabelList
    ELSE IF PathIs(path, <<"/","c","o","m","m","e","n","t","/","s","e","t">>) THEN HandleCommentSet(params, a)
    ELSE IF PathIs(path, <<"/","c","o","m","m","e","n","t","/","g","e","t">>) THEN HandleCommentGet(params, a)
    ELSE IF PathIs(path, <<"/","c","o","m","m","e","n","t","/","d","e","l","e","t","e">>) THEN HandleCommentDelete(params, a)
    ELSE IF PathIs(path, <<"/","c","o","m","m","e","n","t","/","l","i","s","t">>) THEN HandleCommentList
    ELSE IF PathIs(path, <<"/","s","t","a","c","k","/","p","u","s","h">>) THEN HandleStackPush(params, a)
    ELSE IF PathIs(path, <<"/","s","t","a","c","k","/","p","o","p">>) THEN HandleStackPop
    ELSE IF PathIs(path, <<"/","s","t","a","c","k","/","p","e","e","k">>) THEN HandleStackPeek(params)
    ELSE IF PathIs(path, <<"/","f","u","n","c","t","i","o","n","/","a","d","d">>) THEN HandleFunctionAdd(params, a)
    ELSE IF PathIs(path, <<"/","f","u","n","c","t","i","o","n","/","g","e","t">>) THEN HandleFunctionGet(params, a)
    ELSE IF PathIs(path, <<"/","f","u","n","c","t","i","o","n","/","d","e","l","e","t","e">>) THEN HandleFunctionDelete(params, a)
    ELSE IF PathIs(path, <<"/","f","u","n","c","t","i","o","n","/","l","i","s","t">>) THEN HandleFunctionList
    ELSE IF PathIs(path, <<"/","b","o","o","k","m","a","r","k","/","s","e","t">>) THEN HandleBookmarkSet(params, a)
    ELSE IF PathIs(path, <<"/","b","o","o","k","m","a","r","k","/","g","e","t">>) THEN HandleBookmarkGet(params, a)
    ELSE IF PathIs(path, <<"/","b","o","o","k","m","a","r","k","/","d","e","l","e","t","e">>) THEN HandleBookmarkDelete(params, a)
    ELSE IF PathIs(path, <<"/","b","o","o","k","m","a","r","k","/","l","i","s","t">>) THEN HandleBookmarkList
    ELSE IF PathIs(path, <<"/","m","i","s","c","/","p","a","r","s","e","_","e","x","p","r","e","s","s","i","o","n">>) THEN HandleParseExpression(params)
    ELSE IF PathIs(path, <<"/","m","i","s","c","/","r","e","s","o","l","v","e","_","l","a","b","e","l">>) THEN HandleResolveLabel(params)
    ELSE IF PathIs(path, <<"/","m","i","s","c","/","g","e","t","_","p","r","o","c","_","a","d","d","r","e","s","s">>) THEN HandleGetProcAddress(params)
    ELSE IF PathIs(path, <<"/","a","s","s","e","m","b","l","e","r","/","a","s","s","e","m","b","l","e">>) THEN HandleAssemble(params, a)
    ELSE IF PathIs(path, <<"/","a","s","s","e","m","b","l","e","r","/","a","s","s","e","m","b","l","e","_","m","e","m">>) THEN HandleAssembleMem(params, a)
    ELSE IF PathIs(path, <<"/","f","l","a","g","/","g","e","t">>) THEN HandleFlagGet(params)
    ELSE IF PathIs(path, <<"/","f","l","a","g","/","s","e","t">>) THEN HandleFlagSet(params)
    ELSE IF PathIs(path, <<"/","f","l","a","g","s","/","g","e","t","_","a","l","l">>) THEN HandleFlagsGetAll
    ELSE Done(SendResponse(404, TextPlain, <<"E","n","d","p","o","i","n","t"," ","n","o","t"," ","f","o","u","n","d">>))

\* The handler selected by the path, resumed with the result r of the engine
\* call it was in, up to its next engine call or to its response.
RouteResume(path, l, r) ==
    IF PathIs(path, <<"/","s","t","a","t","u","s">>) THEN RouteStatusRet(l, r)
    ELSE IF PathIs(path, <<"/","c","m","d">>) THEN RouteCmdRet(l, r)
    ELSE IF PathIs(path, <<"/","r","e","g","i","s","t","e","r","/","g","e","t">>) THEN RouteRegisterGetRet(l, r)
    ELSE IF PathIs(path, <<"/","m","e","m","o","r","y","/","r","e","a","d">>) THEN RouteMemoryReadRet(l, r)
    ELSE IF PathIs(path, <<"/","m","e","m","o","r","y","/","w","r","i","t","e">>) THEN RouteMemoryWriteRet(l, r)
    ELSE IF PathIs(path, <<"/","p","a","t","t","e","r","n","/","f","i","n","d","_","m","e","m">>) THEN HandleFindMemRet(l, r)
    ELSE IF PathIs(path, <<"/","m","e","m","o","r","y","/","s","e","a","r","c","h">>) THEN HandleMemorySearchRet(l, r)
    ELSE IF \E route \in {<<"/","d","e","b","u","g","/","r","u","n">>, <<"/","d","e","b","u","g","/","p","a","u","s","e">>, <<"/","d","e","b","u","g","/","s","t","e","p">>,
                          <<"/","d","e","b","u","g","/","s","t","e","p","o","v","e","r">>, <<"/","d","e","b","u","g","/","s","t","e","p","o","u","t">>} : PathIs(path, route)
    THEN RouteDebugRet(l, r)
    ELSE IF PathIs(path, <<"/","d","i","s","a","s","m">>) THEN RouteDisasmRet(l, r)
    ELSE IF PathIs(path, <<"/","m","o","d","u","l","e","s">>)
    THEN ListRet("module", <<"F","a","i","l","e","d"," ","t","o"," ","g","e","t"," ","m","o","d","u","l","e"," ","l","i","s","t">>, r)
    ELSE IF PathIs(path, <<"/","s","y","m","b","o","l","s","/","l","i","s","t">>)
    THEN ListRet("symbol", <<"F","a","i","l","e","d"," ","t","o"," ","g","e","t"," ","s","y","m","b","o","l"," ","l","i","s","t">>, r)
    ELSE IF PathIs(path, <<"/","l","a","b","e","l","/","l","i","s","t">>)
    THEN ListRet("label", <<"F","a","i","l","e","d"," ","t","o"," ","g","e","t"," ","l","a","b","e","l"," ","l","i","s","t">>, r)
    ELSE IF PathIs(path, <<"/","c","o","m","m","e","n","t","/","l","i","s","t">>)
    THEN ListRet("comment", <<"F","a","i","l","e","d"," ","t","o"," ","g","e","t"," ","c","o","m","m","e","n","t"," ","l","i","s","t">>, r)
    ELSE IF PathIs(path, <<"/","f","u","n","c","t","i","o","n","/","l","i","s","t">>)
    THEN ListRet("function", <<"F","a","i","l","e","d"," ","t","o"," ","g","e","t"," ","f","u","n","c","t","i","o","n"," ","l","i","s","t">>, r)
    ELSE IF PathIs(path, <<"/","b","o","o","k","m","a","r","k","/","l","i","s","t">>)
    THEN ListRet("bookmark", <<"F","a","i","l","e","d"," ","t","o"," ","g","e","t"," ","b","o","o","k","m","a","r","k"," ","l","i","s","t">>, r)
    ELSE IF PathIs(path, <<"/","l","a","b","e","l","/","g","e","t">>) \/ PathIs(path, <<"/","c","o","m","m","e","n","t","/","g","e","t">>)
    THEN SuccessTextRet(r)
    ELSE IF PathIs(path, <<"/","l","a","b","e","l","/","f","r","o","m","_","s","t","r","i","n","g">>) THEN HandleLabelFromStringRet(l, r)
    ELSE IF PathIs(path, <<"/","s","t","a","c","k","/","p","u","s","h">>) THEN HandleStackPushRet(l, r)
    ELSE IF PathIs(path, <<"/","s","t","a","c","k","/","p","o","p">>) THEN HandleStackPopRet(l, r)
    ELSE IF PathIs(path, <<"/","s","t","a","c","k","/","p","e","e","k">>) THEN HandleStackPeekRet(l, r)
    ELSE IF PathIs(path, <<"/","f","u","n","c","t","i","o","n","/","g","e","t">>) THEN HandleFunctionGetRet(l, r)
    ELSE IF PathIs(path, <<"/","b","o","o","k","m","a","r","k","/","g","e","t">>) THEN HandleBookmarkGetRet(l, r)
    ELSE IF PathIs(path, <<"/","m","i","s","c","/","p","a","r","s","e","_","e","x","p","r","e","s","s","i","o","n">>) THEN HandleParseExpressionRet(l, r)
    ELSE IF PathIs(path, <<"/","m","i","s","c","/","r","e","s","o","l","v","e","_","l","a","b","e","l">>) THEN HandleResolveLabelRet(l, r)
    ELSE IF PathIs(path, <<"/","m","i","s","c","/","g","e","t","_","p","r","o","c","_","a","d","d","r","e","s","s">>) THEN HandleGetProcAddressRet(l, r)
    ELSE IF PathIs(path, <<"/","a","s","s","e","m","b","l","e","r","/","a","s","s","e","m","b","l","e">>) THEN HandleAssembleRet(l, r)
    ELSE IF PathIs(path, <<"/","f","l","a","g","/","g","e","t">>) THEN HandleFlagGetRet(l, r)
    ELSE IF PathIs(path, <<"/","f","l","a","g","s","/","g","e","t","_","a","l","l">>) THEN HandleFlagsGetAllRet(l, r)
    \* /register/set, /pattern/search_replace_mem, /breakpoint/set|delete,
    \* /label/set|delete, /comment/set|delete, /function/add|delete,
    \* /bookmark/set|delete, /assembler/assemble_mem, /flag/set
    ELSE SuccessRet(r)

\* variant of CatchBlock: HandleRequest without its try / catch
Rethrow(o) == o

\* catch (const std::exception& e): the exception becomes a 500 response
CatchBlock(o) ==
    IF o.kind = "throw"
    THEN [Done(SendResponse(500, AppJson,
               <<"{","\"","e","r","r","o","r","\"",":","\"">> \o JsonEscape(o.what) \o <<"\"","}">>))
           EXCEPT !.what = o.what, !.caught = o.caught]
    ELSE o

\* HandleRequest that serves GET alone
HandleRequestGetOnly(method, path, params, body, a) ==
    IF method = <<"G","E","T">> THEN CatchBlock(RouteStart(path, params, a))
    ELSE Done(SendResponse(404, TextPlain, <<"N","o","t"," ","F","o","u","n","d">>))

\* HandleRequest(client, method, path, params, body) from its entry
HandleRequest(method, path, params, body, a) == CatchBlock(RouteStart(path, params, a))

\* HandleRequest from the return of an engine call
HandleRequestResume(path, l, r) == CatchBlock(RouteResume(path, l, r))

\* ------------------------------------------------------- the external engine
\* What an engine operation hands back: a success flag, one or two values, a
\* count, bytes, a text, a list.  The engine is outside the plugin: every
\* operation answers with one of a few results.
Result == [ok |-> TRUE, val |-> Zero, val2 |-> Zero, n |-> 0, bytes |-> << >>,
           text |-> << >>, list |-> << >>]

Failure == [Result EXCEPT !.ok = FALSE]

SampleAddr == FromNat(4096)

\* bytes with a high and with a low first digit: 0x90, 0x0a, 0x84, ...
SampleBytes(n) == [i \in 1..n |-> (144 + 122 * (i - 1)) % 256]

\* the number of bytes the engine handles for a request of size bytes
Clamp(size) ==
    IF FitsNat(size) /\ ToNat(size) < MaxBytes THEN ToNat(size) ELSE MaxBytes

SampleItem(op) ==
    CASE op = "Script::Module::GetList" ->
            [name |-> <<"a",".","e","x","e">>, base |-> FromNat(4194304), size |-> SampleAddr,
             entry |-> FromNat(4198400), path |-> <<"C",":","\\","a",".","e","x","e">>]
      [] op = "Script::Symbol::GetList" ->
            [mod |-> <<"a",".","e","x","e">>, rva |-> SampleAddr, name |-> <<"m","a","i","n">>,
             manual |-> FALSE, type |-> "Function"]
      [] op \in {"Script::Label::GetList", "Script::Comment::GetList"} ->
            [mod |-> <<"a",".","e","x","e">>, rva |-> SampleAddr, text |-> <<"s","a","y"," ","\"","h","i","\"">>,
             manual |-> TRUE]
      [] op = "Script::Function::GetList" ->
            [mod |-> <<"a",".","e","x","e">>, rvaStart |-> SampleAddr, rvaEnd |-> FromNat(4112),
             manual |-> FALSE, instructioncount |-> 3]
      [] op = "Script::Bookmark::GetList" ->
            [mod |-> <<"a",".","e","x","e">>, rva |-> SampleAddr, manual |-> TRUE]

BoolOps ==
    {"DbgIsDebugging", "DbgIsRunning", "DbgCmdExecDirect", "Script::Register::Set",
     "Script::Pattern::SearchAndReplaceMem", "Script::Debug::SetBreakpoint",
     "Script::Debug::DeleteBreakpoint", "Script::Label::Set", "Script::Label::Delete",
     "Script::Comment::Set", "Script::Comment::Delete", "Script::Function::Add",
     "Script::Function::Delete", "Script::Bookmark::Set", "Script::Bookmark::Get",
     "Script::Bookmark::Delete", "Script::Assembler::AssembleMem", "Script::Flag::Get",
     "Script::Flag::Set", "Script::Flag::GetZF", "Script::Flag::GetIF"}

VoidOps ==
    {"Script::Debug::Run", "Script::Debug::Pause", "Script::Debug::StepIn",
     "Script::Debug::StepOver", "Script::Debug::StepOut"}

ListOps ==
    {"Script::Module::GetList", "Script::Symbol::GetList", "Script::Label::GetList",
     "Script::Comment::GetList", "Script::Function::GetList", "Script::Bookmark::GetList"}

ValueOps ==
    {"Script::Stack::Push", "Script::Stack::Pop",
     "Script::Stack::Peek", "Script::Misc::ResolveLabel",
     "Script::Misc::RemoteGetProcAddress"}

\* the results the engine may return for operation op with arguments args,
\* called by a handler whose local variables are l
EngineResults(op, args, l) ==
    CASE op \in BoolOps -> {Result, Failure}
      [] op \in VoidOps -> {Result}
      [] op \in ValueOps -> {Result, [Result EXCEPT !.val = SampleAddr]}
      [] op \in ListOps ->
            {Failure} \cup {[Result EXCEPT !.list = [i \in 1..k |-> SampleItem(op)]] :
                               k \in 0..MaxList}
      [] op = "DbgDisasmAt" -> {[Result EXCEPT !.text = <<"n","o","p">>, !.n = 1]}
      [] op = "Script::Memory::Read" ->
            {Failure, [Result EXCEPT !.n = Clamp(args[2]),
                                     !.bytes = SampleBytes(Clamp(args[2]))]}
      [] op = "Script::Memory::Write" ->
            {Failure, [Result EXCEPT !.n = Len(args[2])]}
      [] op = "Script::Pattern::FindMem" ->
            IF "results" \in DOMAIN l
            THEN {Result} \cup
                 (IF Len(l.results) < MaxMatches
                  THEN {[Result EXCEPT !.val = x] :
                          x \in {y \in {args[1], AddWord(args[1], FromNat(1), l.arch)} :
                                    ~Less(y, l.searchAddr) /\ Less(y, l.endAddr)
                                    /\ y # Zero}}
                  ELSE {})
            ELSE {Result} \cup (IF args[1] # Zero THEN {[Result EXCEPT !.val = args[1]]} ELSE {})
      [] op \in {"Script::Label::Get", "Script::Comment::Get"} ->
            {Failure, [Result EXCEPT !.text = <<"s","a","y"," ","\"","h","i","\"">>]}
      [] op \in {"Script::Label::FromString", "Script::Misc::ParseExpression"} ->
            {Failure, [Result EXCEPT !.val = SampleAddr]}
      [] op = "Script::Function::Get" ->
            {Failure, [Result EXCEPT !.val = SampleAddr, !.val2 = FromNat(4112), !.n = 3]}
      [] op = "Script::Assembler::Assemble" ->
            {Failure, [Result EXCEPT !.n = MaxBytes, !.bytes = SampleBytes(MaxBytes)]}
      [] OTHER -> {Result}

\* The registers are state of the debuggee: Script::Register::Get returns the
\* value the register has, every other operation answers as above.
EngineAnswers(op, args, l, regs) ==
    IF op = "Script::Register::Get" THEN {[Result EXCEPT !.val = regs[args[1]]]}
    ELSE EngineResults(op, args, l)

\* the registers after operation op has returned r: a Script::Register::Set
\* that succeeded has written its value
EngineEffect(op, args, r, regs) ==
    IF op = "Script::Register::Set" /\ r.ok THEN [regs EXCEPT ![args[1]] = args[2]]
    ELSE regs
\* ------------------------------------------------------ what clients send
\* key=value, and an absent parameter as the empty segment
Seg(key, Vals) == {<< >>} \cup {key \o <<"=">> \o v : v \in Vals}

Join(x, y) ==
    IF x = << >> THEN y ELSE IF y = << >> THEN x ELSE x \o <<"&">> \o y

Q1(k1, V1) == Seg(k1, V1)

Q2(k1, V1, k2, V2) == {Join(x, y) : x \in Seg(k1, V1), y \in Seg(k2, V2)}

Q3(k1, V1, k2, V2, k3, V3) ==
    {Join(x, y) : x \in Q2(k1, V1, k2, V2), y \in Seg(k3, V3)}

AddrVals == {<<"0","x","1","0","0","0">>, <<"z","z">>}
SizeVals ==
    {<<"1","6">>, <<"1","0","4","8","5","7","6">>, <<"1","0","4","8","5","7","7">>, <<"0","x","1","0","0","0","0","0","0","1","0">>, <<"1","8","4","4","6","7","4","4","0","7","3","7","0","9","5","5","1","6","1","6">>,
     <<"z","z">>}
TextVals == {<<"a","%","2","2","b">>}
RegVals == {<<"e","a","x">>, <<"R","A","X">>, <<"f","o","o">>}
FlagVals == {<<"Z","F">>, <<"x","x">>}
BoolVals == {<<"t","r","u","e">>, <<"n","o">>}
HexVals == {<<"9","0","9","0">>, <<"9">>, <<"z","z">>, <<"9","z">>, <<"0","a","-","1">>}
IntVals == {<<"1">>, <<"0">>, <<"-","1">>, <<"z","z">>}

\* the query strings sent to a path: every required parameter absent, well
\* formed or malformed
QueriesOf(path) ==
    CASE path = <<"/","c","m","d">> -> Q1(<<"c","m","d">>, TextVals)
      [] path = <<"/","r","e","g","i","s","t","e","r","/","g","e","t">> -> Q1(<<"n","a","m","e">>, RegVals)
      [] path = <<"/","r","e","g","i","s","t","e","r","/","s","e","t">> -> Q2(<<"n","a","m","e">>, RegVals, <<"v","a","l","u","e">>, AddrVals)
      [] path = <<"/","m","e","m","o","r","y","/","r","e","a","d">> -> Q2(<<"a","d","d","r">>, AddrVals, <<"s","i","z","e">>, SizeVals)
      [] path = <<"/","m","e","m","o","r","y","/","w","r","i","t","e">> -> Q2(<<"a","d","d","r">>, AddrVals, <<"d","a","t","a">>, HexVals)
      [] path = <<"/","p","a","t","t","e","r","n","/","f","i","n","d","_","m","e","m">> ->
            Q3(<<"s","t","a","r","t">>, AddrVals, <<"s","i","z","e">>, AddrVals, <<"p","a","t","t","e","r","n">>, {<<"9","0">>})
      [] path = <<"/","p","a","t","t","e","r","n","/","s","e","a","r","c","h","_","r","e","p","l","a","c","e","_","m","e","m">> ->
            {Join(x, y) :
                x \in Q3(<<"s","t","a","r","t">>, AddrVals, <<"s","i","z","e">>, {<<"2">>}, <<"s","e","a","r","c","h">>, {<<"9","0">>}),
                y \in Seg(<<"r","e","p","l","a","c","e">>, {<<"c","c">>})}
      [] path = <<"/","m","e","m","o","r","y","/","s","e","a","r","c","h">> ->
            {Join(x, y) :
                x \in Q3(<<"s","t","a","r","t">>, AddrVals, <<"s","i","z","e">>, {<<"2">>, <<"z","z">>},
                         <<"p","a","t","t","e","r","n">>, {<<"9","0">>}),
                y \in Seg(<<"m","a","x">>, IntVals)}
            \cup {<<"s","t","a","r","t","=","0","x","1","0","0","0","&","s","i","z","e","=">> \o size \o <<"&","p","a","t","t","e","r","n","=","9","0">> \o max :
                     size \in {<<"0">>, <<"0","x","f","f","f","f","f","f","f","f","f","f","f","f","f","f","f","f">>},
                     max \in {<< >>, <<"&","m","a","x","=","-","1">>}}
      [] path \in {<<"/","b","r","e","a","k","p","o","i","n","t","/","s","e","t">>, <<"/","b","r","e","a","k","p","o","i","n","t","/","d","e","l","e","t","e">>, <<"/","d","i","s","a","s","m">>,
                   <<"/","l","a","b","e","l","/","g","e","t">>, <<"/","l","a","b","e","l","/","d","e","l","e","t","e">>, <<"/","c","o","m","m","e","n","t","/","g","e","t">>,
                   <<"/","c","o","m","m","e","n","t","/","d","e","l","e","t","e">>, <<"/","f","u","n","c","t","i","o","n","/","g","e","t">>, <<"/","f","u","n","c","t","i","o","n","/","d","e","l","e","t","e">>,
                   <<"/","b","o","o","k","m","a","r","k","/","g","e","t">>, <<"/","b","o","o","k","m","a","r","k","/","d","e","l","e","t","e">>} -> Q1(<<"a","d","d","r">>, AddrVals)
      [] path \in {<<"/","l","a","b","e","l","/","s","e","t">>, <<"/","c","o","m","m","e","n","t","/","s","e","t">>} ->
            Q3(<<"a","d","d","r">>, AddrVals, <<"t","e","x","t">>, TextVals, <<"m","a","n","u","a","l">>, BoolVals)
      [] path \in {<<"/","l","a","b","e","l","/","f","r","o","m","_","s","t","r","i","n","g">>, <<"/","m","i","s","c","/","r","e","s","o","l","v","e","_","l","a","b","e","l">>} ->
            Q1(<<"l","a","b","e","l">>, TextVals)
      [] path = <<"/","s","t","a","c","k","/","p","u","s","h">> -> Q1(<<"v","a","l","u","e">>, AddrVals)
      [] path = <<"/","s","t","a","c","k","/","p","e","e","k">> -> Q1(<<"o","f","f","s","e","t">>, IntVals)
      [] path = <<"/","f","u","n","c","t","i","o","n","/","a","d","d">> ->
            Q3(<<"s","t","a","r","t">>, AddrVals, <<"e","n","d">>, AddrVals, <<"i","n","s","t","r","u","c","t","i","o","n","_","c","o","u","n","t">>, IntVals)
      [] path = <<"/","b","o","o","k","m","a","r","k","/","s","e","t">> ->
            Q2(<<"a","d","d","r">>, AddrVals, <<"m","a","n","u","a","l">>, BoolVals) \cup {<<"a","d","d","r","=","0","x","1","0","0","0","&","m","a","n","u","a","l","=","z","z">>}
      [] path = <<"/","m","i","s","c","/","p","a","r","s","e","_","e","x","p","r","e","s","s","i","o","n">> -> Q1(<<"e","x","p","r">>, TextVals)
      [] path = <<"/","m","i","s","c","/","g","e","t","_","p","r","o","c","_","a","d","d","r","e","s","s">> -> Q2(<<"m","o","d","u","l","e">>, TextVals, <<"a","p","i">>, TextVals)
      [] path \in {<<"/","a","s","s","e","m","b","l","e","r","/","a","s","s","e","m","b","l","e">>, <<"/","a","s","s","e","m","b","l","e","r","/","a","s","s","e","m","b","l","e","_","m","e","m">>} ->
            Q2(<<"a","d","d","r">>, AddrVals, <<"i","n","s","t","r","u","c","t","i","o","n">>, {<<"n","o","p">>})
      [] path = <<"/","f","l","a","g","/","g","e","t">> -> Q1(<<"f","l","a","g">>, FlagVals)
      [] path = <<"/","f","l","a","g","/","s","e","t">> -> Q2(<<"f","l","a","g">>, FlagVals, <<"v","a","l","u","e">>, BoolVals)
      [] OTHER -> {<< >>}

\* the registered routes, as HandleRequest spells them
Routes ==
    {<<"/","s","t","a","t","u","s">>, <<"/","c","m","d">>, <<"/","r","e","g","i","s","t","e","r","/","g","e","t">>, <<"/","r","e","g","i","s","t","e","r","/","s","e","t">>, <<"/","m","e","m","o","r","y","/","r","e","a","d">>,
     <<"/","m","e","m","o","r","y","/","w","r","i","t","e">>, <<"/","p","a","t","t","e","r","n","/","f","i","n","d","_","m","e","m">>, <<"/","p","a","t","t","e","r","n","/","s","e","a","r","c","h","_","r","e","p","l","a","c","e","_","m","e","m">>,
     <<"/","m","e","m","o","r","y","/","s","e","a","r","c","h">>, <<"/","d","e","b","u","g","/","r","u","n">>, <<"/","d","e","b","u","g","/","p","a","u","s","e">>, <<"/","d","e","b","u","g","/","s","t","e","p">>,
     <<"/","d","e","b","u","g","/","s","t","e","p","o","v","e","r">>, <<"/","d","e","b","u","g","/","s","t","e","p","o","u","t">>, <<"/","b","r","e","a","k","p","o","i","n","t","/","s","e","t">>,
     <<"/","b","r","e","a","k","p","o","i","n","t","/","d","e","l","e","t","e">>, <<"/","d","i","s","a","s","m">>, <<"/","m","o","d","u","l","e","s">>, <<"/","s","y","m","b","o","l","s","/","l","i","s","t">>,
     <<"/","l","a","b","e","l","/","s","e","t">>, <<"/","l","a","b","e","l","/","g","e","t">>, <<"/","l","a","b","e","l","/","d","e","l","e","t","e">>, <<"/","l","a","b","e","l","/","f","r","o","m","_","s","t","r","i","n","g">>,
     <<"/","l","a","b","e","l","/","l","i","s","t">>, <<"/","c","o","m","m","e","n","t","/","s","e","t">>, <<"/","c","o","m","m","e","n","t","/","g","e","t">>, <<"/","c","o","m","m","e","n","t","/","d","e","l","e","t","e">>,
     <<"/","c","o","m","m","e","n","t","/","l","i","s","t">>, <<"/","s","t","a","c","k","/","p","u","s","h">>, <<"/","s","t","a","c","k","/","p","o","p">>, <<"/","s","t","a","c","k","/","p","e","e","k">>,
     <<"/","f","u","n","c","t","i","o","n","/","a","d","d">>, <<"/","f","u","n","c","t","i","o","n","/","g","e","t">>, <<"/","f","u","n","c","t","i","o","n","/","d","e","l","e","t","e">>, <<"/","f","u","n","c","t","i","o","n","/","l","i","s","t">>,
     <<"/","b","o","o","k","m","a","r","k","/","s","e","t">>, <<"/","b","o","o","k","m","a","r","k","/","g","e","t">>, <<"/","b","o","o","k","m","a","r","k","/","d","e","l","e","t","e">>, <<"/","b","o","o","k","m","a","r","k","/","l","i","s","t">>,
     <<"/","m","i","s","c","/","p","a","r","s","e","_","e","x","p","r","e","s","s","i","o","n">>, <<"/","m","i","s","c","/","r","e","s","o","l","v","e","_","l","a","b","e","l">>, <<"/","m","i","s","c","/","g","e","t","_","p","r","o","c","_","a","d","d","r","e","s","s">>,
     <<"/","a","s","s","e","m","b","l","e","r","/","a","s","s","e","m","b","l","e">>, <<"/","a","s","s","e","m","b","l","e","r","/","a","s","s","e","m","b","l","e","_","m","e","m">>, <<"/","f","l","a","g","/","g","e","t">>,
     <<"/","f","l","a","g","/","s","e","t">>, <<"/","f","l","a","g","s","/","g","e","t","_","a","l","l">>}

\* paths that are no route: unknown, a prefix of a route, a route with a
\* trailing slash or an extra segment, a route in another letter case
OtherPaths ==
    {<<"/","n","o","/","s","u","c","h","/","e","n","d","p","o","i","n","t">>, <<"/","s","t","a","t">>, <<"/","s","t","a","t","u","s","/">>, <<"/","S","T","A","T","U","S">>, <<"/","d","e","b","u","g","/","r","u","n","/","x">>,
     <<"/","m","e","m","o","r","y">>, <<"/","M","o","d","u","l","e","s">>, <<"/">>, << >>}

\* a request as the bytes of one recv: request line, blank line, body
RequestText(method, url, body) ==
    method \o <<" ">> \o url \o <<" ","H","T","T","P","/","1",".","1","\r","\n">> \o <<"H","o","s","t",":"," ","1","2","7",".","0",".","0",".","1","\r","\n","\r","\n">> \o body

UrlsOf(path) ==
    {IF q = << >> THEN path ELSE path \o <<"?">> \o q : q \in QueriesOf(path)}

WellFormed ==
    {RequestText(<<"G","E","T">>, u, << >>) : u \in UNION {UrlsOf(p) : p \in Routes \cup OtherPaths}}
    \cup {RequestText(<<"P","O","S","T">>, <<"/","s","t","a","t","u","s">>, <<"x","=","1">>),
          RequestText(<<"P","O","S","T">>, <<"/","c","m","d","?","c","m","d","=","r","u","n">>, <<"c","m","d","=","s","t","o","p">>),
          RequestText(<<"G","E","T">>, <<"/","s","t","a","t","u","s","?">>, << >>),
          RequestText(<<"G","E","T">>, <<"/","c","m","d","?","c","m","d","=","a","&","c","m","d","=","b">>, << >>),
          RequestText(<<"G","E","T">>, <<"/","m","e","m","o","r","y","/","r","e","a","d","?","a","d","d","r","=","0","x","1","0","0","0","&","s","i","z","e","=","1","6","&","x">>, << >>),
          <<"P","O","S","T"," ","/","r","e","g","i","s","t","e","r","/","g","e","t","?","n","a","m","e","=","e","a","x"," ","H","T","T","P","/","1",".","0","\r","\n","X","-","T","e","s","t",":"," ","1","\r","\n","\r","\n","n","a","m","e","=","f","o","o">>,
          <<"D","E","L","E","T","E"," ","/","m","e","m","o","r","y","/","w","r","i","t","e","?","a","d","d","r","=","0","x","1","0","0","0","&","d","a","t","a","=","9","0","9","0"," ","H","T","T","P","/","2","\r","\n","\r","\n","d","a","t","a","=","z","z">>,
          <<"P","U","T"," ","/","M","o","d","u","l","e","s"," ","x","\r","\n","\r","\n">>,
          RequestText(<<"G","E","T">>, <<"/","c","m","d","?","c","m","d","=","%","5","C","%","2","2">>, << >>)}

\* request lines that do not split into method and target, or have no end
Malformed ==
    {<<"G","E","T"," ","/","s","t","a","t","u","s","\r","\n","\r","\n">>, <<"G","E","T"," ","/","s","t","a","t","u","s"," ","H","T","T","P","/","1",".","1">>, <<"G","E","T","\r","\n","\r","\n">>, <<"\r","\n">>,
     <<"G","E","T"," ","/","m","e","m","o","r","y","/","r","e","a","d","?","a","d","d","r","=","0","x","1","0","0","0","&","s","i">>}

\* --------------------------------------------------------- connections
Conns == 1..MaxConns

\* A connection: where it stands (st), the bytes recv returned (request, empty
\* when recv returned 0 or SOCKET_ERROR), the request parsed from them, whether
\* HandleRequest was entered for it (handled), the responses SendResponse
\* wrote to it (sent), the engine calls made for it (calls), the engine call
\* its handler is in (op, args, locals), whether an exception reached the
\* catch block of HandleRequest (threw) or was caught in a parameter
\* extractor (caught), whether the engine reported a failure to its handler
\* (failed), and how often closesocket was called on it (closes); of a closed
\* connection only handled, the number of responses (nsent) and closes are kept.
Fresh ==
    [st |-> "idle", request |-> << >>, method |-> << >>, path |-> << >>, params |-> EmptyMap,
     body |-> << >>, handled |-> FALSE, sent |-> << >>, calls |-> << >>,
     op |-> "none", args |-> << >>, locals |-> NoLocals, threw |-> FALSE,
     caught |-> FALSE, failed |-> FALSE, nsent |-> 0, closes |-> 0]

\* a connection as accept() returned it
Accepted == [Fresh EXCEPT !.st = "accepted"]

\* connections whose handler is inside an engine operation
EngineBusy == {c \in Conns : conns[c].st = "engine"}

\* connections the server has accepted and not yet closed
Active == {c \in Conns : conns[c].st \in {"accepted", "engine", "responded"}}

Init ==
    /\ arch \in {32, 64}
    /\ g_running = FALSE
    /\ g_serverThread = "NULL"
    /\ g_serverSocket = "INVALID_SOCKET"
    /\ listenSock = [st |-> "none", closes |-> 0]
    /\ hostPc = "unloaded"
    /\ srvPc = "none"
    /\ conns = [c \in Conns |-> Fresh]
    /\ registers = [reg \in Registers32 \cup Registers64 |-> Zero]
    /\ input = [text |-> << >>, from |-> << >>]
    /\ applied = "none"
    /\ output = << >>

\* ------------------------------------------------------------ host thread
\* pluginInit: g_serverThread = CreateThread(...)
InitCreateThread ==
    /\ hostPc = "unloaded"
    /\ \E ok \in BOOLEAN :
          /\ g_serverThread' = IF ok THEN "thread" ELSE "NULL"
          /\ srvPc' = IF ok THEN "WSAStartup" ELSE srvPc
    /\ hostPc' = "created"
    /\ UNCHANGED <<input, applied, output, registers>>
    /\ UNCHANGED <<arch, g_running, g_serverSocket, listenSock, conns>>

\* pluginInit: if (g_serverThread) g_running = true; return true
InitSetRunning ==
    /\ hostPc = "created"
    /\ g_running' = IF g_serverThread # "NULL" THEN TRUE ELSE g_running
    /\ hostPc' = "loaded"
    /\ UNCHANGED <<input, applied, output, registers>>
    /\ UNCHANGED <<arch, g_serverThread, g_serverSocket, listenSock, srvPc, conns>>

\* pluginStop: g_running = false
StopClearRunning ==
    /\ hostPc = "loaded"
    /\ g_running' = FALSE
    /\ hostPc' = "stop_socket"
    /\ UNCHANGED <<input, applied, output, registers>>
    /\ UNCHANGED <<arch, g_serverThread, g_serverSocket, listenSock, srvPc, conns>>

\* closesocket(handle) on the listening socket, as the OS sees it
CloseListen(handle) ==
    IF handle = "sock"
    THEN [st |-> "closed", closes |-> listenSock.closes + 1]
    ELSE listenSock

\* pluginStop: if (g_serverSocket != INVALID_SOCKET) closesocket(g_serverSocket)
StopCloseSocket ==
    /\ hostPc = "stop_socket"
    /\ IF g_serverSocket # "INVALID_SOCKET"
       THEN listenSock' = CloseListen(g_serverSocket) /\ hostPc' = "stop_clear"
       ELSE listenSock' = listenSock /\ hostPc' = "stop_wait"
    /\ UNCHANGED <<input, applied, output, registers>>
    /\ UNCHANGED <<arch, g_running, g_serverThread, g_serverSocket, srvPc, conns>>

\* pluginStop: g_serverSocket = INVALID_SOCKET
StopClearSocket ==
    /\ hostPc = "stop_clear"
    /\ g_serverSocket' = "INVALID_SOCKET"
    /\ hostPc' = "stop_wait"
    /\ UNCHANGED <<input, applied, output, registers>>
    /\ UNCHANGED <<arch, g_running, g_serverThread, listenSock, srvPc, conns>>

\* pluginStop: WaitForSingleObject(g_serverThread, 2000) returns when the
\* thread has ended or after two seconds; CloseHandle; g_serverThread = NULL
StopWait ==
    /\ hostPc = "stop_wait"
    /\ g_serverThread' = "NULL"
    /\ hostPc' = "stopped"
    /\ UNCHANGED <<input, applied, output, registers>>
    /\ UNCHANGED <<arch, g_running, g_serverSocket, listenSock, srvPc, conns>>

\* ----------------------------------------------------------------- clients
\* A client connects: the OS completes the handshake on the listening socket
\* and queues the connection.  Connections are numbered in arrival order.
Connect(c) ==
    /\ conns[c].st = "idle"
    /\ \A d \in Conns : d < c => conns[d].st # "idle"
    /\ listenSock.st = "listening"
    /\ conns' = [conns EXCEPT ![c].st = "pending"]
    /\ UNCHANGED <<input, applied, output, registers>>
    /\ UNCHANGED <<arch, g_running, g_serverThread, g_serverSocket, listenSock, hostPc,
                   srvPc>>

\* ------------------------------------------------------------ server thread
\* WSAStartup(MAKEWORD(2, 2), &wsaData)
SrvWSAStartup ==
    /\ srvPc = "WSAStartup"
    /\ \E ok \in BOOLEAN : srvPc' = IF ok THEN "socket" ELSE "exited"
    /\ UNCHANGED <<input, applied, output, registers>>
    /\ UNCHANGED <<arch, g_running, g_serverThread, g_serverSocket, listenSock, hostPc,
                   conns>>

\* g_serverSocket = socket(...); on INVALID_SOCKET: WSACleanup, return 1
SrvSocket ==
    /\ srvPc = "socket"
    /\ listenSock.st = "none"
    /\ \E ok \in BOOLEAN :
          /\ g_serverSocket' = IF ok THEN "sock" ELSE "INVALID_SOCKET"
          /\ listenSock' = IF ok THEN [listenSock EXCEPT !.st = "created"] ELSE listenSock
          /\ srvPc' = IF ok THEN "bind" ELSE "exited"
    /\ UNCHANGED <<input, applied, output, registers>>
    /\ UNCHANGED <<arch, g_running, g_serverThread, hostPc, conns>>

\* bind(g_serverSocket, ...); on SOCKET_ERROR: closesocket, WSACleanup, return 1
SrvBind ==
    /\ srvPc = "bind"
    /\ \E ok \in {b \in BOOLEAN : b => (g_serverSocket = "sock" /\ listenSock.st = "created")} :
          /\ listenSock' = IF ok THEN [listenSock EXCEPT !.st = "bound"]
                           ELSE CloseListen(g_serverSocket)
          /\ srvPc' = IF ok THEN "listen" ELSE "exited"
    /\ UNCHANGED <<input, applied, output, registers>>
    /\ UNCHANGED <<arch, g_running, g_serverThread, g_serverSocket, hostPc, conns>>

\* variant of SrvListen: the result of listen is not tested
SrvListenUnchecked ==
    /\ srvPc = "listen"
    /\ \E ok \in {b \in BOOLEAN : b => (g_serverSocket = "sock" /\ listenSock.st = "bound")} :
          listenSock' = IF ok THEN [listenSock EXCEPT !.st = "listening"] ELSE listenSock
    /\ srvPc' = "loop"
    /\ UNCHANGED <<input, applied, output, registers>>
    /\ UNCHANGED <<arch, g_running, g_serverThread, g_serverSocket, hostPc, conns>>

\* listen(g_serverSocket, SOMAXCONN); on SOCKET_ERROR: closesocket, WSACleanup,
\* return 1; otherwise ioctlsocket(FIONBIO) and on to the accept loop
SrvListen ==
    /\ srvPc = "listen"
    /\ \E ok \in {b \in BOOLEAN : b => (g_serverSocket = "sock" /\ listenSock.st = "bound")} :
          /\ listenSock' = IF ok THEN [listenSock EXCEPT !.st = "listening"]
                           ELSE CloseListen(g_serverSocket)
          /\ srvPc' = IF ok THEN "loop" ELSE "exited"
    /\ UNCHANGED <<input, applied, output, registers>>
    /\ UNCHANGED <<arch, g_running, g_serverThread, g_serverSocket, hostPc, conns>>

\* variant of SrvLoop: while (true)
SrvLoopForever ==
    /\ srvPc = "loop"
    /\ srvPc' = "accept"
    /\ UNCHANGED <<input, applied, output, registers>>
    /\ UNCHANGED <<arch, g_running, g_serverThread, g_serverSocket, listenSock, hostPc,
                   conns>>

\* while (g_running)
SrvLoop ==
    /\ srvPc = "loop"
    /\ srvPc' = IF g_running THEN "accept" ELSE "cleanup"
    /\ UNCHANGED <<input, applied, output, registers>>
    /\ UNCHANGED <<arch, g_running, g_serverThread, g_serverSocket, listenSock, hostPc,
                   conns>>

\* the connections accept() can return: the oldest one queued
Acceptable ==
    IF g_serverSocket = "sock" /\ listenSock.st = "listening"
    THEN {c \in Conns : conns[c].st = "pending"
                        /\ \A d \in Conns : conns[d].st = "pending" => c <= d}
    ELSE {}

\* variant of AtAccept: a server that accepts while it serves a connection
AtAcceptOrServing == srvPc \in {"accept", "serving"}

\* the server thread is at accept(): it serves no connection
AtAccept == srvPc = "accept"

\* accept() returns a client socket
SrvAccept(c) ==
    /\ AtAccept
    /\ c \in Acceptable
    /\ conns' = [conns EXCEPT ![c] = Accepted]
    /\ srvPc' = "serving"
    /\ UNCHANGED <<input, applied, output, registers>>
    /\ UNCHANGED <<arch, g_running, g_serverThread, g_serverSocket, listenSock, hostPc>>

\* variant of SrvAcceptNone: a failed accept ends the loop
SrvAcceptNoneBreak ==
    /\ srvPc = "accept"
    /\ srvPc' = "cleanup"
    /\ UNCHANGED <<input, applied, output, registers>>
    /\ UNCHANGED <<arch, g_running, g_serverThread, g_serverSocket, listenSock, hostPc,
                   conns>>

\* accept() returns INVALID_SOCKET (WSAEWOULDBLOCK when nothing is queued, an
\* error when the socket was closed, or any other error):
\* if (!g_running) break; otherwise on to Sleep(10)
SrvAcceptNone ==
    /\ srvPc = "accept"
    /\ srvPc' = IF g_running THEN "sleep" ELSE "cleanup"
    /\ UNCHANGED <<input, applied, output, registers>>
    /\ UNCHANGED <<arch, g_running, g_serverThread, g_serverSocket, listenSock, hostPc,
                   conns>>

\* variant of SrvSleep: Sleep(INFINITE)
SrvSleepInfinite ==
    /\ srvPc = "sleep"
    /\ UNCHANGED vars

\* Sleep(10); continue
SrvSleep ==
    /\ srvPc = "sleep"
    /\ srvPc' = "loop"
    /\ UNCHANGED <<input, applied, output, registers>>
    /\ UNCHANGED <<arch, g_running, g_serverThread, g_serverSocket, listenSock, hostPc,
                   conns>>

\* Operations whose boolean result says whether they succeeded
SuccessOps ==
    {"DbgCmdExecDirect", "Script::Register::Set", "Script::Memory::Read",
     "Script::Memory::Write", "Script::Pattern::SearchAndReplaceMem",
     "Script::Debug::SetBreakpoint", "Script::Debug::DeleteBreakpoint",
     "Script::Label::Set", "Script::Label::Get", "Script::Label::Delete",
     "Script::Label::FromString", "Script::Comment::Set", "Script::Comment::Get",
     "Script::Comment::Delete", "Script::Function::Add", "Script::Function::Get",
     "Script::Function::Delete", "Script::Bookmark::Set", "Script::Bookmark::Delete",
     "Script::Misc::ParseExpression", "Script::Assembler::Assemble",
     "Script::Assembler::AssembleMem", "Script::Flag::Set"} \cup ListOps

\* Operations that return an address, 0 when they found none
SentinelOps ==
    {"Script::Pattern::FindMem", "Script::Misc::ResolveLabel",
     "Script::Misc::RemoteGetProcAddress"}

\* the engine reported a failure: false from an operation that returns its
\* success, 0 from one that returns an address
EngineFailed(op, r) ==
    (op \in SuccessOps /\ ~r.ok) \/ (op \in SentinelOps /\ r.val = Zero)

\* the connection after a handler position o was reached: in an engine call,
\* or with the response written and the handler returned (an exception that
\* left HandleRequest ends the thread)
Advance(cn, o) ==
    [cn EXCEPT
        !.st = IF o.kind = "call" THEN "engine"
               ELSE IF o.kind = "done" THEN "responded" ELSE "unwound",
        !.sent = cn.sent \o o.sent,
        !.calls = IF o.kind = "call" THEN Append(cn.calls, <<o.op, o.args>>) ELSE cn.calls,
        !.op = o.op, !.args = o.args, !.locals = o.locals,
        !.threw = cn.threw \/ o.what # << >>,
        !.caught = cn.caught \/ o.caught]

\* variant of ParseRequest: a request line is taken as it is whenever the
\* bytes hold a CRLF, without the test that it splits on two spaces
ParseRequestAnyLine(request) ==
    LET firstLineEnd == FindStr(request, <<"\r","\n">>)
        requestLine == SubStr(request, 1, firstLineEnd - 1)
        methodEnd == Find(requestLine, " ", 1)
        url == SubStrFrom(requestLine, methodEnd + 1)
    IN  [ok |-> firstLineEnd # 0,
         method |-> SubStr(requestLine, 1, methodEnd - 1),
         path |-> url, query |-> << >>, body |-> << >>]

\* The request line parsed as ServerThread parses it; ok says whether it
\* split into method and target, so that HandleRequest is called.
ParseRequest(request) ==
    LET firstLineEnd == FindStr(request, <<"\r","\n">>)
        requestLine == SubStr(request, 1, firstLineEnd - 1)
        methodEnd == Find(requestLine, " ", 1)
        urlEnd == Find(requestLine, " ", methodEnd + 1)
        url == SubStr(requestLine, methodEnd + 1, urlEnd - methodEnd - 1)
        queryStart == Find(url, "?", 1)
        bodyStart == FindStr(request, <<"\r","\n","\r","\n">>)
    IN  [ok |-> firstLineEnd # 0 /\ methodEnd # 0 /\ urlEnd # 0,
         method |-> SubStr(requestLine, 1, methodEnd - 1),
         path |-> IF queryStart # 0 THEN SubStr(url, 1, queryStart - 1) ELSE url,
         query |-> IF queryStart # 0 THEN SubStrFrom(url, queryStart + 1) ELSE << >>,
         body |-> IF bodyStart # 0 THEN SubStrFrom(request, bodyStart + 4) ELSE << >>]

\* recv() returned the bytes of request: parse the request line and, if it
\* splits, call HandleRequest, which runs to its first engine call or to its
\* response
Received(cn, request, a) ==
    LET p == ParseRequest(request)
        params == ParseQuery(p.query)
    IN  IF ~p.ok THEN [cn EXCEPT !.st = "responded", !.request = request]
        ELSE Advance([cn EXCEPT !.request = request, !.method = p.method, !.path = p.path,
                                !.params = params, !.body = p.body, !.handled = TRUE],
                     HandleRequest(p.method, p.path, params, p.body, a))

\* the thread after a step on a connection: an exception that left
\* HandleRequest unwinds out of ServerThread and ends it
AfterStep(cn) == IF cn.st = "unwound" THEN "terminated" ELSE srvPc

\* Received on a connection just accepted, for every request a client sends
\* and either build
ReceivedOnAccepted ==
    [request \in WellFormed \cup Malformed, a \in {32, 64} |->
        Received(Accepted, request, a)]

\* int bytesReceived = recv(clientSocket, ...) with bytes of a request, and
\* the rest of the loop body up to the first engine call or the response
SrvRecv(c) ==
    /\ srvPc = "serving"
    /\ conns[c] = Accepted
    /\ \E request \in WellFormed \cup Malformed :
          /\ conns' = [conns EXCEPT ![c] = ReceivedOnAccepted[request, arch]]
          /\ srvPc' = AfterStep(ReceivedOnAccepted[request, arch])
    /\ UNCHANGED <<input, applied, output, registers>>
    /\ UNCHANGED <<arch, g_running, g_serverThread, g_serverSocket, listenSock, hostPc>>

\* recv() returned 0 (the client closed) or SOCKET_ERROR: nothing is parsed
SrvRecvNone(c) ==
    /\ srvPc = "serving"
    /\ conns[c].st = "accepted"
    /\ conns' = [conns EXCEPT ![c].st = "responded"]
    /\ UNCHANGED <<input, applied, output, registers>>
    /\ UNCHANGED <<arch, g_running, g_serverThread, g_serverSocket, listenSock, hostPc,
                   srvPc>>

\* the engine operation the handler of c is in returns; the handler runs on to
\* its next engine call or to its response
SrvEngineReturn(c) ==
    /\ srvPc = "serving"
    /\ conns[c].st = "engine"
    /\ \E r \in EngineAnswers(conns[c].op, conns[c].args, conns[c].locals, registers) :
          LET cn == Advance([conns[c] EXCEPT
                                !.failed = @ \/ EngineFailed(conns[c].op, r)],
                            HandleRequestResume(conns[c].path, conns[c].locals, r))
          IN  /\ conns' = [conns EXCEPT ![c] = cn]
              /\ srvPc' = AfterStep(cn)
              /\ registers' = EngineEffect(conns[c].op, conns[c].args, r, registers)
    /\ UNCHANGED <<input, applied, output>>
    /\ UNCHANGED <<arch, g_running, g_serverThread, g_serverSocket, listenSock, hostPc>>

\* variant of SrvCloseClient: the loop body ends without closesocket
SrvLeaveOpen(c) ==
    /\ srvPc = "serving"
    /\ conns[c].st = "responded"
    /\ srvPc' = "loop"
    /\ UNCHANGED <<input, applied, output, registers>>
    /\ UNCHANGED <<arch, g_running, g_serverThread, g_serverSocket, listenSock, hostPc,
                   conns>>

\* closesocket(clientSocket) at the end of the loop body; what is kept of a
\* closed connection is what was done on it
SrvCloseClient(c) ==
    /\ srvPc = "serving"
    /\ conns[c].st = "responded"
    /\ conns' = [conns EXCEPT ![c] =
                    [Fresh EXCEPT !.st = "closed", !.handled = conns[c].handled,
                                  !.nsent = Len(conns[c].sent),
                                  !.closes = conns[c].closes + 1]]
    /\ srvPc' = "loop"
    /\ UNCHANGED <<input, applied, output, registers>>
    /\ UNCHANGED <<arch, g_running, g_serverThread, g_serverSocket, listenSock, hostPc>>

\* variant of SrvCleanup: the thread returns without releasing the socket
SrvReturnOnly ==
    /\ srvPc = "cleanup"
    /\ srvPc' = "exited"
    /\ UNCHANGED <<input, applied, output, registers>>
    /\ UNCHANGED <<arch, g_running, g_serverThread, g_serverSocket, listenSock, hostPc,
                   conns>>

\* after the loop: closesocket(g_serverSocket); g_serverSocket = INVALID_SOCKET;
\* WSACleanup(); return 0
SrvCleanup ==
    /\ srvPc = "cleanup"
    /\ listenSock' = CloseListen(g_serverSocket)
    /\ g_serverSocket' = "INVALID_SOCKET"
    /\ srvPc' = "exited"
    /\ UNCHANGED <<input, applied, output, registers>>
    /\ UNCHANGED <<arch, g_running, g_serverThread, hostPc, conns>>

Next ==
    \/ InitCreateThread
    \/ InitSetRunning
    \/ StopClearRunning
    \/ StopCloseSocket
    \/ StopClearSocket
    \/ StopWait
    \/ \E c \in Conns : Connect(c)
    \/ SrvWSAStartup
    \/ SrvSocket
    \/ SrvBind
    \/ SrvListen
    \/ SrvLoop
    \/ \E c \in Conns : SrvAccept(c)
    \/ SrvAcceptNone
    \/ SrvSleep
    \/ \E c \in Conns : SrvRecv(c)
    \/ \E c \in Conns : SrvRecvNone(c)
    \/ \E c \in Conns : SrvEngineReturn(c)
    \/ \E c \in Conns : SrvCloseClient(c)
    \/ SrvCleanup

Spec == Init /\ [][Next]_vars

\* ---------------------------------------------------------------- fairness
\* the steps of the server thread: a created thread is scheduled, and accept,
\* recv (on a socket that inherits the non-blocking mode of the listening
\* socket) and the engine operations return
ServerStep ==
    \/ SrvWSAStartup
    \/ SrvSocket
    \/ SrvBind
    \/ SrvListen
    \/ SrvLoop
    \/ \E c \in Conns : SrvAccept(c)
    \/ SrvAcceptNone
    \/ SrvSleep
    \/ \E c \in Conns : SrvRecv(c)
    \/ \E c \in Conns : SrvRecvNone(c)
    \/ \E c \in Conns : SrvEngineReturn(c)
    \/ \E c \in Conns : SrvCloseClient(c)
    \/ SrvCleanup

FairSpec == Spec /\ WF_vars(ServerStep)
\* ------------------------------------------------- functions on their own
\* The query parser applied to a query string outside a request: the input is
\* drawn when the run starts, one step applies UrlDecode or ParseQuery to it.
MaxText == 3         \* characters of a text that is encoded and decoded
MaxKey == 2          \* characters of a key or value that is encoded and parsed
MaxSegments == 3     \* segments of a query string

\* reserved characters of a query string, the space, a letter and a digit
TextChars == {"%", "+", "&", "=", " ", "a", "2"}

\* the texts of up to n of the characters chars
TextsOf(chars, n) == UNION {[1..k -> chars] : k \in 0..n}

\* the characters of keys and values
KeyChars == {"%", "+", "&", "=", " ", "a"}

\* characters a client's percent-encoding leaves as they are
Unreserved ==
    {c \in {Printable[i] : i \in 1..Len(Printable)} :
        \/ DigitVal(c) < 16
        \/ ToLowerChar(c) \in {LowerChars[i] : i \in 1..Len(LowerChars)}
        \/ c \in {"-", "_", ".", "~"}}

\* the code of a printable character
CodeOf(c) == 31 + CHOOSE i \in 1..Len(Printable) : Printable[i] = c

\* what a client sends for the text s: every character that is not unreserved
\* as % and the two upper-case hex digits of its code (encodeURIComponent,
\* urllib.parse.quote)
PercentEncode(s) ==
    LET Enc(c) ==
            IF c \in Unreserved THEN <<c>>
            ELSE <<"%", HexCharsUpper[(CodeOf(c) \div 16) + 1],
                   HexCharsUpper[(CodeOf(c) % 16) + 1]>>
        RECURSIVE From(_)
        From(i) == IF i > Len(s) THEN << >> ELSE Enc(s[i]) \o From(i + 1)
    IN  From(1)

\* the same with a space sent as + (form encoding, urllib.parse.quote_plus)
FormEncode(s) ==
    LET RECURSIVE From(_)
        From(i) ==
            IF i > Len(s) THEN << >>
            ELSE (IF s[i] = " " THEN <<"+">> ELSE PercentEncode(<<s[i]>>)) \o From(i + 1)
    IN  From(1)

\* An input is the text the function is applied to, with what it was made
\* from: a text and its encoding, a key and a value and the query
\* encode(key) = encode(value), or a query string written as it is.
EncodedTexts(texts) ==
    {[text |-> PercentEncode(s), from |-> <<s>>] : s \in texts}
    \cup {[text |-> FormEncode(s), from |-> <<s>>] : s \in texts}

EncodedPairs(keys) ==
    {[text |-> PercentEncode(k) \o <<"=">> \o PercentEncode(v), from |-> <<k, v>>] :
        k \in keys, v \in keys}

\* segments of a query string: with and without =, with a second =, with an
\* encoded = or & in the key or value, the same key spelled in two ways
Segments ==
    {<<"a","=","1">>, <<"a","=","2">>, <<"b","=","1">>, <<"a">>, << >>, <<"a","=","1","=","2">>, <<"=","1">>, <<"a","=">>,
     <<"%","6","1","=","3">>, <<"%","6","1","=","1","=","2">>, <<"a","%","3","D","1","=","2">>, <<"a","=","1","%","2","6","2">>, <<"a","+","b","=","c","+","d">>}

RECURSIVE QueriesOfUpTo(_)
\* the segments joined by &, up to n of them
QueriesOfUpTo(n) ==
    IF n = 1 THEN Segments
    ELSE LET shorter == QueriesOfUpTo(n - 1)
         IN  shorter \cup {q \o <<"&">> \o seg : q \in shorter, seg \in Segments}

WrittenQueries(n) == {[text |-> q, from |-> << >>] : q \in QueriesOfUpTo(n)}

\* values of a parameter as a client writes them: numbers in decimal and in
\* hexadecimal, at the limits of int, of 32 and of 64 bits, with a sign, white
\* space, a leading 0, an upper-case prefix or other characters around them,
\* and words for true and false
ValueTexts ==
    {<<"0">>, <<"1","6">>, <<"4","0","9","6">>, <<"0","x","0">>, <<"0","x","1","0">>, <<"0","x","1","0","0","0">>, <<"0","x","A","B","C","D","E","F">>,
     <<"1","2","z","z">>, <<"0","x","1","0","z","z">>, <<"0","x">>, <<"0","x","z","z">>, <<"z","z">>, << >>, <<"1"," ","2">>,
     <<" ","1","2">>, <<"\t","1","2">>, <<"1","2"," ">>, <<"-","1">>, <<"+","5">>, <<"-">>, <<"0","1","0">>, <<"0","8">>, <<"0","X","1","F">>,
     <<"2","1","4","7","4","8","3","6","4","7">>, <<"2","1","4","7","4","8","3","6","4","8">>, <<"-","2","1","4","7","4","8","3","6","4","8">>, <<"-","2","1","4","7","4","8","3","6","4","9">>,
     <<"0","x","7","f","f","f","f","f","f","f">>, <<"0","x","8","0","0","0","0","0","0","0">>, <<"0","x","f","f","f","f","f","f","f","f">>, <<"0","x","1","0","0","0","0","0","0","0","0">>, <<"0","x","1","0","0","0","0","0","0","1","0">>,
     <<"4","2","9","4","9","6","7","2","9","5">>, <<"4","2","9","4","9","6","7","2","9","6">>,
     <<"0","x","f","f","f","f","f","f","f","f","f","f","f","f","f","f","f","f">>, <<"0","x","1","0","0","0","0","0","0","0","0","0","0","0","0","0","0","0","0">>,
     <<"1","8","4","4","6","7","4","4","0","7","3","7","0","9","5","5","1","6","1","5">>, <<"1","8","4","4","6","7","4","4","0","7","3","7","0","9","5","5","1","6","1","6">>,
     <<"t","r","u","e">>, <<"1">>, <<"y","e","s">>, <<"f","a","l","s","e">>, <<"n","o">>, <<"T","r","u","e">>, <<"T","R","U","E">>, <<"Y","E","S">>,
     <<"Y","e","s">>, <<"o","n">>, <<"t","r","u","e"," ">>, <<" ","t","r","u","e">>, <<"1","1">>, <<"0","1">>, <<"y">>, <<"t">>}

MaxDigits == 3       \* digits of a hexadecimal literal
MaxEscape == 3       \* characters of a text that is escaped

\* digits of the hexadecimal literals
LiteralDigits == {"0", "1", "a", "f"}

\* 0x and up to n digits
HexLiterals(n) == {<<"0","x">> \o d : d \in TextsOf(LiteralDigits, n) \ {<< >>}}

\* the five characters JsonEscape replaces, a letter that is the second
\* character of an escape, and two other characters
EscapeChars == {"\"", "\\", "\n", "\r", "\t", "n", "a", "/"}

\* texts written as they are
Written(texts) == {[text |-> s, from |-> << >>] : s \in texts}

FunctionInit ==
    /\ arch \in {32, 64}
    /\ g_running = FALSE
    /\ g_serverThread = "NULL"
    /\ g_serverSocket = "INVALID_SOCKET"
    /\ listenSock = [st |-> "none", closes |-> 0]
    /\ hostPc = "unloaded"
    /\ srvPc = "none"
    /\ conns = [c \in Conns |-> Fresh]
    /\ registers = [reg \in Registers32 \cup Registers64 |-> Zero]
    /\ \/ input \in EncodedTexts(TextsOf(TextChars, MaxText))
       \/ input \in EncodedPairs(TextsOf(KeyChars, MaxKey))
       \/ input \in WrittenQueries(MaxSegments)
       \/ input \in Written(ValueTexts)
       \/ input \in Written(HexLiterals(MaxDigits))
       \/ input \in Written(TextsOf(EscapeChars, MaxEscape))
    /\ applied = "none"
    /\ output = << >>

\* std::string result = UrlDecode(text)
UrlDecodeStep ==
    /\ applied = "none"
    /\ applied' = "UrlDecode"
    /\ output' = UrlDecode(input.text)
    /\ UNCHANGED <<arch, g_running, g_serverThread, g_serverSocket, listenSock, hostPc,
                   srvPc, conns, registers, input>>

\* auto params = ParseQuery(query)
ParseQueryStep ==
    /\ applied = "none"
    /\ applied' = "ParseQuery"
    /\ output' = ParseQuery(input.text)
    /\ UNCHANGED <<arch, g_running, g_serverThread, g_serverSocket, listenSock, hostPc,
                   srvPc, conns, registers, input>>

\* the map of a request that has the parameter key with the written text as
\* its value, or that does not have it
ParamMaps(key) == {EmptyMap, key :> input.text}

\* duint out = 0; bool ok = GetParamAddr(params, key, out)
GetParamAddrStep ==
    /\ applied = "none"
    /\ input.from = << >>
    /\ \E params \in ParamMaps(<<"a","d","d","r">>) :
          /\ applied' = "GetParamAddr"
          /\ output' = [params |-> params, key |-> <<"a","d","d","r">>,
                        result |-> GetParamAddr(params, <<"a","d","d","r">>, arch)]
    /\ UNCHANGED <<arch, g_running, g_serverThread, g_serverSocket, listenSock, hostPc,
                   srvPc, conns, registers, input>>

\* int out = 100; bool ok = GetParamInt(params, key, out)
GetParamIntStep ==
    /\ applied = "none"
    /\ input.from = << >>
    /\ \E params \in ParamMaps(<<"m","a","x">>) :
          /\ applied' = "GetParamInt"
          /\ output' = [params |-> params, key |-> <<"m","a","x">>,
                        result |-> GetParamInt(params, <<"m","a","x">>, DEFAULT_MAX_RESULTS)]
    /\ UNCHANGED <<arch, g_running, g_serverThread, g_serverSocket, listenSock, hostPc,
                   srvPc, conns, registers, input>>

\* bool out = dflt; bool found = GetParamBool(params, key, out)
GetParamBoolStep ==
    /\ applied = "none"
    /\ input.from = << >>
    /\ \E params \in ParamMaps(<<"v","a","l","u","e">>), dflt \in BOOLEAN :
          /\ applied' = "GetParamBool"
          /\ output' = [params |-> params, key |-> <<"v","a","l","u","e">>, dflt |-> dflt,
                        result |-> GetParamBool(params, <<"v","a","l","u","e">>, dflt)]
    /\ UNCHANGED <<arch, g_running, g_serverThread, g_serverSocket, listenSock, hostPc,
                   srvPc, conns, registers, input>>

\* duint value = std::stoull(text, nullptr, 0); std::string s = ToHex(value)
ToHexStep ==
    /\ applied = "none"
    /\ input.from = << >>
    /\ Stoull(input.text).status = "ok"
    /\ applied' = "ToHex"
    /\ output' = [value |-> ToDuint(Stoull(input.text).val, arch),
                  text |-> ToHex(ToDuint(Stoull(input.text).val, arch))]
    /\ UNCHANGED <<arch, g_running, g_serverThread, g_serverSocket, listenSock, hostPc,
                   srvPc, conns, registers, input>>

\* std::string escaped = JsonEscape(text)
JsonEscapeStep ==
    /\ applied = "none"
    /\ input.from = << >>
    /\ applied' = "JsonEscape"
    /\ output' = JsonEscape(input.text)
    /\ UNCHANGED <<arch, g_running, g_serverThread, g_serverSocket, listenSock, hostPc,
                   srvPc, conns, registers, input>>

FunctionNext ==
    \/ UrlDecodeStep
    \/ ParseQueryStep
    \/ GetParamAddrStep
    \/ GetParamIntStep
    \/ GetParamBoolStep
    \/ ToHexStep
    \/ JsonEscapeStep

FunctionSpec == FunctionInit /\ [][FunctionNext]_vars

\* ------------------------------------------------------------- properties
\* HandleRequest was called for connection c and has returned
Returned(c) == conns[c].handled /\ conns[c].st = "responded"

\* HandleRequest was called for connection c, which is not yet closed
Dispatched(c) == conns[c].handled /\ conns[c].st \in {"engine", "responded"}

\* the first response written to connection c
Response(c) == conns[c].sent[1]

Contains(str, pat) == FindStr(str, pat) # 0

\* C1, as the claim states it: every connection the server has accepted and
\* closed had exactly one response written to it before the close.
C1_EveryClosedConnectionAnswered ==
    \A c \in Conns : conns[c].st = "closed" => conns[c].nsent = 1

\* C1, amended: a connection the server has accepted gets at most one
\* response before it is closed, and exactly one if and only if its request
\* line split into method and target so that HandleRequest was called; a
\* connection whose recv failed or whose request line does not split is closed
\* with no response written.
C1_AnsweredOnceIffDispatched ==
    \A c \in Conns :
        /\ conns[c].st = "closed" =>
              conns[c].nsent = (IF conns[c].handled THEN 1 ELSE 0)
        /\ conns[c].st = "responded" =>
              Len(conns[c].sent) = (IF conns[c].handled THEN 1 ELSE 0)

\* C1: one connection was closed after its response, another was closed with
\* no response written
C1_AnsweredAndDroppedSeen ==
    \E c, d \in Conns :
        /\ conns[c].st = "closed" /\ conns[c].handled /\ conns[c].nsent = 1
        /\ conns[d].st = "closed" /\ ~conns[d].handled /\ conns[d].nsent = 0

\* C2: once HandleRequest is called for a request, exactly one response is
\* written on every path: none while the handler is still in an engine call,
\* exactly one when HandleRequest has ended, whether parameter validation
\* failed, the engine reported a failure or an exception was thrown.
C2_OneResponsePerDispatch ==
    \A c \in Conns :
        conns[c].handled =>
            /\ conns[c].st = "engine" => conns[c].sent = << >>
            /\ conns[c].st \in {"responded", "unwound"} => Len(conns[c].sent) = 1

\* C2: HandleRequest has returned on the path where an exception was thrown,
\* with one response written
C2_ReturnedAfterException ==
    \E c \in Conns : Returned(c) /\ conns[c].threw /\ Len(conns[c].sent) = 1

\* C3: requests are serialized: at most one accepted connection is being
\* read, dispatched or answered, a later connection is not accepted before
\* every earlier one has been answered and closed, and at most one engine
\* call is in progress.
C3_Serialized ==
    /\ Cardinality(Active) <= 1
    /\ Cardinality(EngineBusy) <= 1
    /\ \A c, d \in Conns :
          (c < d /\ conns[d].st \notin {"idle", "pending"}) => conns[c].st = "closed"

\* C3: the handler of the second connection is in an engine call, after the
\* first connection was dispatched, answered and closed, while a third
\* request may already wait
C3_SecondHandlerAfterFirstClosed ==
    /\ conns[1].st = "closed" /\ conns[1].handled /\ conns[1].nsent = 1
    /\ conns[2].st = "engine"

\* the parameters a route requires, from the "Missing ..." test of its handler
RequiredParams(path) ==
    CASE path = <<"/","c","m","d">> -> {<<"c","m","d">>}
      [] path = <<"/","r","e","g","i","s","t","e","r","/","g","e","t">> -> {<<"n","a","m","e">>}
      [] path = <<"/","r","e","g","i","s","t","e","r","/","s","e","t">> -> {<<"n","a","m","e">>, <<"v","a","l","u","e">>}
      [] path = <<"/","m","e","m","o","r","y","/","r","e","a","d">> -> {<<"a","d","d","r">>, <<"s","i","z","e">>}
      [] path = <<"/","m","e","m","o","r","y","/","w","r","i","t","e">> -> {<<"a","d","d","r">>, <<"d","a","t","a">>}
      [] path \in {<<"/","p","a","t","t","e","r","n","/","f","i","n","d","_","m","e","m">>, <<"/","m","e","m","o","r","y","/","s","e","a","r","c","h">>} ->
            {<<"s","t","a","r","t">>, <<"s","i","z","e">>, <<"p","a","t","t","e","r","n">>}
      [] path = <<"/","p","a","t","t","e","r","n","/","s","e","a","r","c","h","_","r","e","p","l","a","c","e","_","m","e","m">> ->
            {<<"s","t","a","r","t">>, <<"s","i","z","e">>, <<"s","e","a","r","c","h">>, <<"r","e","p","l","a","c","e">>}
      [] path \in {<<"/","b","r","e","a","k","p","o","i","n","t","/","s","e","t">>, <<"/","b","r","e","a","k","p","o","i","n","t","/","d","e","l","e","t","e">>, <<"/","d","i","s","a","s","m">>,
                   <<"/","l","a","b","e","l","/","g","e","t">>, <<"/","l","a","b","e","l","/","d","e","l","e","t","e">>, <<"/","c","o","m","m","e","n","t","/","g","e","t">>,
                   <<"/","c","o","m","m","e","n","t","/","d","e","l","e","t","e">>, <<"/","f","u","n","c","t","i","o","n","/","g","e","t">>, <<"/","f","u","n","c","t","i","o","n","/","d","e","l","e","t","e">>,
                   <<"/","b","o","o","k","m","a","r","k","/","s","e","t">>, <<"/","b","o","o","k","m","a","r","k","/","g","e","t">>, <<"/","b","o","o","k","m","a","r","k","/","d","e","l","e","t","e">>} ->
            {<<"a","d","d","r">>}
      [] path \in {<<"/","l","a","b","e","l","/","s","e","t">>, <<"/","c","o","m","m","e","n","t","/","s","e","t">>} -> {<<"a","d","d","r">>, <<"t","e","x","t">>}
      [] path \in {<<"/","l","a","b","e","l","/","f","r","o","m","_","s","t","r","i","n","g">>, <<"/","m","i","s","c","/","r","e","s","o","l","v","e","_","l","a","b","e","l">>} -> {<<"l","a","b","e","l">>}
      [] path = <<"/","s","t","a","c","k","/","p","u","s","h">> -> {<<"v","a","l","u","e">>}
      [] path = <<"/","f","u","n","c","t","i","o","n","/","a","d","d">> -> {<<"s","t","a","r","t">>, <<"e","n","d">>}
      [] path = <<"/","m","i","s","c","/","p","a","r","s","e","_","e","x","p","r","e","s","s","i","o","n">> -> {<<"e","x","p","r">>}
      [] path = <<"/","m","i","s","c","/","g","e","t","_","p","r","o","c","_","a","d","d","r","e","s","s">> -> {<<"m","o","d","u","l","e">>, <<"a","p","i">>}
      [] path \in {<<"/","a","s","s","e","m","b","l","e","r","/","a","s","s","e","m","b","l","e">>, <<"/","a","s","s","e","m","b","l","e","r","/","a","s","s","e","m","b","l","e","_","m","e","m">>} ->
            {<<"a","d","d","r">>, <<"i","n","s","t","r","u","c","t","i","o","n">>}
      [] path = <<"/","f","l","a","g","/","g","e","t">> -> {<<"f","l","a","g">>}
      [] path = <<"/","f","l","a","g","/","s","e","t">> -> {<<"f","l","a","g">>, <<"v","a","l","u","e">>}
      [] OTHER -> {}

\* connection c was answered 400 text/plain and no engine call was made for it
Rejected400(c) ==
    /\ conns[c].st = "responded"
    /\ conns[c].calls = << >>
    /\ Len(conns[c].sent) = 1
    /\ Response(c).code = 400
    /\ Response(c).contentType = TextPlain

\* C4: on every endpoint that requires parameters, a request that omits one of
\* them is answered 400 with a text/plain body, and no engine call is made
\* while it is handled.
C4_MissingParamRejected ==
    \A c \in Conns :
        (Dispatched(c) /\ RequiredParams(conns[c].path) \ DOMAIN conns[c].params # {})
            => Rejected400(c)

\* C4: /memory/read with addr given and size omitted was answered 400
C4_ReadWithoutSizeRejected ==
    \E c \in Conns :
        /\ Returned(c)
        /\ conns[c].path = <<"/","m","e","m","o","r","y","/","r","e","a","d">>
        /\ DOMAIN conns[c].params = {<<"a","d","d","r">>}
        /\ Rejected400(c)

\* the required parameters of a route that are numbers (address, size, value)
NumericParams(path) ==
    CASE path = <<"/","r","e","g","i","s","t","e","r","/","s","e","t">> -> {<<"v","a","l","u","e">>}
      [] path = <<"/","m","e","m","o","r","y","/","r","e","a","d">> -> {<<"a","d","d","r">>, <<"s","i","z","e">>}
      [] path \in {<<"/","p","a","t","t","e","r","n","/","f","i","n","d","_","m","e","m">>, <<"/","m","e","m","o","r","y","/","s","e","a","r","c","h">>,
                   <<"/","p","a","t","t","e","r","n","/","s","e","a","r","c","h","_","r","e","p","l","a","c","e","_","m","e","m">>} -> {<<"s","t","a","r","t">>, <<"s","i","z","e">>}
      [] path = <<"/","s","t","a","c","k","/","p","u","s","h">> -> {<<"v","a","l","u","e">>}
      [] path = <<"/","f","u","n","c","t","i","o","n","/","a","d","d">> -> {<<"s","t","a","r","t">>, <<"e","n","d">>}
      [] OTHER -> RequiredParams(path) \cap {<<"a","d","d","r">>}

\* C5, as the claim states it: on every endpoint a required numeric parameter
\* that is present but does not parse as a number is answered like an absent
\* one, 400 with a text/plain body, and the engine is not invoked.
C5_UnparsableNumberRejected ==
    \A c \in Conns :
        (/\ Dispatched(c)
         /\ RequiredParams(conns[c].path) \subseteq DOMAIN conns[c].params
         /\ \E k \in NumericParams(conns[c].path) :
               Stoull(conns[c].params[k]).status # "ok")
            => Rejected400(c)

\* C5: what the endpoints handled in HandleRequest do instead: the exception
\* of std::stoull is answered 500 application/json, with no engine call
C5_InlineUnparsableAnswered500 ==
    \E c \in Conns :
        /\ Returned(c)
        /\ conns[c].path = <<"/","m","e","m","o","r","y","/","r","e","a","d">>
        /\ DOMAIN conns[c].params = {<<"a","d","d","r">>, <<"s","i","z","e">>}
        /\ conns[c].params[<<"a","d","d","r">>] = <<"z","z">>
        /\ conns[c].calls = << >>
        /\ Response(c) = SendResponse(500, AppJson, <<"{","\"","e","r","r","o","r","\"",":","\"","i","n","v","a","l","i","d"," ","s","t","o","u","l","l"," ","a","r","g","u","m","e","n","t","\"","}">>)

\* the bodies HandleRequest writes for the exceptions of std::stoull and std::stoi
ErrorBodies ==
    {<<"{","\"","e","r","r","o","r","\"",":","\"","i","n","v","a","l","i","d"," ","s","t","o","u","l","l"," ","a","r","g","u","m","e","n","t","\"","}">>,
     <<"{","\"","e","r","r","o","r","\"",":","\"","s","t","o","u","l","l"," ","a","r","g","u","m","e","n","t"," ","o","u","t"," ","o","f"," ","r","a","n","g","e","\"","}">>,
     <<"{","\"","e","r","r","o","r","\"",":","\"","i","n","v","a","l","i","d"," ","s","t","o","i"," ","a","r","g","u","m","e","n","t","\"","}">>,
     <<"{","\"","e","r","r","o","r","\"",":","\"","s","t","o","i"," ","a","r","g","u","m","e","n","t"," ","o","u","t"," ","o","f"," ","r","a","n","g","e","\"","}">>}

\* C6, as the claim states it: every exception thrown while a request is
\* dispatched, those of parameter coercion included, is answered 500
\* application/json by HandleRequest.
C6_EveryExceptionAnswered500 ==
    \A c \in Conns :
        (Returned(c) /\ (conns[c].threw \/ conns[c].caught)) =>
            /\ Response(c).code = 500
            /\ Response(c).contentType = AppJson

\* C6, amended: an exception that leaves a handler (std::stoull or std::stoi
\* called by the handler itself) is caught in HandleRequest and answered by
\* exactly one 500 application/json response with body {"error":"<message>"};
\* it never reaches the server loop, which is left to close the connection.
\* An exception of std::stoull / std::stoi inside GetParamAddr or GetParamInt
\* is caught there and never reaches HandleRequest.
C6_EscapingExceptionAnswered500 ==
    /\ srvPc # "terminated"
    /\ \A c \in Conns :
          /\ conns[c].st # "unwound"
          /\ conns[c].threw =>
                /\ conns[c].st = "responded"
                /\ srvPc = "serving"
                /\ Len(conns[c].sent) = 1
                /\ Response(c).code = 500
                /\ Response(c).contentType = AppJson
                /\ Response(c).body \in ErrorBodies

\* C6: std::stoi threw in /memory/write, and the 500 response was written
C6_StoiExceptionAnswered ==
    \E c \in Conns :
        /\ Returned(c)
        /\ conns[c].threw
        /\ conns[c].path = <<"/","m","e","m","o","r","y","/","w","r","i","t","e">>
        /\ Response(c) = SendResponse(500, AppJson, <<"{","\"","e","r","r","o","r","\"",":","\"","i","n","v","a","l","i","d"," ","s","t","o","i"," ","a","r","g","u","m","e","n","t","\"","}">>)

\* the engine read of /memory/read was invoked for connection c
ReadInvoked(c) ==
    \E i \in 1..Len(conns[c].calls) : conns[c].calls[i][1] = "Script::Memory::Read"

\* C7, as the claim states it: /memory/read with a size above 1048576 is
\* answered 400 and the engine's memory read is not invoked; with size
\* 1048576 the engine read is invoked with that size.
C7_LargeReadRejected ==
    \A c \in Conns :
        (/\ Dispatched(c)
         /\ conns[c].path = <<"/","m","e","m","o","r","y","/","r","e","a","d">>
         /\ {<<"a","d","d","r">>, <<"s","i","z","e">>} \subseteq DOMAIN conns[c].params
         /\ Stoull(conns[c].params[<<"a","d","d","r">>]).status = "ok"
         /\ Stoull(conns[c].params[<<"s","i","z","e">>]).status = "ok")
            => LET size == Stoull(conns[c].params[<<"s","i","z","e">>]).val
               IN  /\ Less(FromNat(MAX_READ_SIZE), size) =>
                          (Rejected400(c) /\ ~ReadInvoked(c))
                   /\ size = FromNat(MAX_READ_SIZE) =>
                          /\ conns[c].calls # << >>
                          /\ conns[c].calls[1][1] = "Script::Memory::Read"
                          /\ conns[c].calls[1][2][2] = FromNat(MAX_READ_SIZE)

\* C7: on the x32 build the size 0x100000010 reached the engine read as 16
C7_TruncatedSizeRead ==
    \E c \in Conns :
        /\ arch = 32
        /\ conns[c].path = <<"/","m","e","m","o","r","y","/","r","e","a","d">>
        /\ DOMAIN conns[c].params = {<<"a","d","d","r">>, <<"s","i","z","e">>}
        /\ conns[c].params[<<"s","i","z","e">>] = <<"0","x","1","0","0","0","0","0","0","1","0">>
        /\ conns[c].calls = <<<<"Script::Memory::Read", <<FromNat(4096), FromNat(16)>>>>>>

\* connection c was answered 404 text/plain "... not found" with no engine call
NotFound404(c) ==
    /\ conns[c].st = "responded"
    /\ conns[c].calls = << >>
    /\ Len(conns[c].sent) = 1
    /\ Response(c).code = 404
    /\ Response(c).contentType = TextPlain
    /\ Contains(ToLower(Response(c).body), <<"n","o","t"," ","f","o","u","n","d">>)

\* C8: a request whose path is not character for character a registered
\* route (a prefix of a route, a route with a trailing slash or an extra
\* segment, a route in another letter case) is answered 404 with a text/plain
\* body containing "not found", and no engine call is made.
C8_ExactPathOr404 ==
    \A c \in Conns :
        (Dispatched(c) /\ conns[c].path \notin Routes) => NotFound404(c)

\* C8: /STATUS and /status/ are no routes: one of them was answered 404
C8_NearMissAnswered404 ==
    \E c \in Conns :
        /\ Returned(c)
        /\ conns[c].path \in {<<"/","S","T","A","T","U","S">>, <<"/","s","t","a","t","u","s","/">>, <<"/","s","t","a","t">>, <<"/","d","e","b","u","g","/","r","u","n","/","x">>}
        /\ NotFound404(c)

\* the endpoints that answer an engine failure with 500
FailsWith500 ==
    {<<"/","m","e","m","o","r","y","/","r","e","a","d">>, <<"/","m","o","d","u","l","e","s">>, <<"/","s","y","m","b","o","l","s","/","l","i","s","t">>, <<"/","l","a","b","e","l","/","l","i","s","t">>,
     <<"/","c","o","m","m","e","n","t","/","l","i","s","t">>, <<"/","f","u","n","c","t","i","o","n","/","l","i","s","t">>, <<"/","b","o","o","k","m","a","r","k","/","l","i","s","t">>}

\* connection c was answered 500 text/plain
Failed500(c) ==
    /\ Len(conns[c].sent) = 1
    /\ Response(c).code = 500
    /\ Response(c).contentType = TextPlain

\* connection c was answered 200 application/json
Json200(c) ==
    /\ Len(conns[c].sent) = 1
    /\ Response(c).code = 200
    /\ Response(c).contentType = AppJson

\* C9, as the claim states it: an engine failure is answered 500 text/plain on
\* /memory/read and the list endpoints, and on every other endpoint 200 with a
\* JSON body holding "success":false.  (A FindMem that finds no further match
\* ends the loop of /memory/search; it is not counted as a failure here.)
C9_FailureIsSuccessFalse ==
    \A c \in Conns :
        (Returned(c) /\ conns[c].failed /\ conns[c].path # <<"/","m","e","m","o","r","y","/","s","e","a","r","c","h">>) =>
            IF conns[c].path \in FailsWith500 THEN Failed500(c)
            ELSE Json200(c) /\ Contains(Response(c).body, <<"\"","s","u","c","c","e","s","s","\"",":","f","a","l","s","e">>)

\* C9, amended: an engine failure is answered 500 text/plain on /memory/read,
\* /modules, /symbols/list, /label/list, /comment/list, /function/list and
\* /bookmark/list, and 200 application/json on every other endpoint, where the
\* body holds "success":false, except that /pattern/find_mem reports
\* "found":false and /memory/search the matches found so far.
C9_FailureEscalatedOnlyOnReadAndLists ==
    \A c \in Conns :
        (Returned(c) /\ conns[c].failed) =>
            IF conns[c].path \in FailsWith500 THEN Failed500(c)
            ELSE /\ Json200(c)
                 /\ IF conns[c].path = <<"/","p","a","t","t","e","r","n","/","f","i","n","d","_","m","e","m">>
                    THEN Contains(Response(c).body, <<"\"","f","o","u","n","d","\"",":","f","a","l","s","e">>)
                    ELSE IF conns[c].path = <<"/","m","e","m","o","r","y","/","s","e","a","r","c","h">>
                    THEN Contains(Response(c).body, <<"{","\"","c","o","u","n","t","\"",":">>)
                    ELSE Contains(Response(c).body, <<"\"","s","u","c","c","e","s","s","\"",":","f","a","l","s","e">>)

\* C9: FindMem found nothing for /pattern/find_mem, answered 200 "found":false
C9_FindMemFailureSeen ==
    \E c \in Conns :
        /\ Returned(c)
        /\ conns[c].failed
        /\ conns[c].path = <<"/","p","a","t","t","e","r","n","/","f","i","n","d","_","m","e","m">>
        /\ Response(c) = SendResponse(200, AppJson, <<"{","\"","f","o","u","n","d","\"",":","f","a","l","s","e",",","\"","a","d","d","r","e","s","s","\"",":","\"","0","x","0","\"","}">>)

\* the handler of connection c got past its parameter validation and returned
Validated(c) ==
    /\ Returned(c)
    /\ conns[c].path \in Routes
    /\ ~conns[c].threw
    /\ Response(c).code # 400

\* C10, as the claim states it: after successful parameter validation every
\* handler invokes exactly one engine operation for the request.
C10_OneEngineCallPerRequest ==
    \A c \in Conns : Validated(c) => Len(conns[c].calls) = 1

\* C10, amended: after successful parameter validation a handler invokes
\* exactly one engine operation, except /status, which invokes two
\* (DbgIsDebugging, DbgIsRunning), /flags/get_all, which invokes nine (one per
\* flag), and /memory/search, which invokes FindMem once per match it reports
\* and at most once more (not at all when size or max is 0).
C10_EngineCallsPerHandler ==
    \A c \in Conns :
        Validated(c) =>
            LET n == Len(conns[c].calls)
            IN  IF conns[c].path = <<"/","s","t","a","t","u","s">>
                THEN n = 2 /\ <<conns[c].calls[1][1], conns[c].calls[2][1]>> =
                                  <<"DbgIsDebugging", "DbgIsRunning">>
                ELSE IF conns[c].path = <<"/","f","l","a","g","s","/","g","e","t","_","a","l","l">> THEN n = 9
                ELSE IF conns[c].path = <<"/","m","e","m","o","r","y","/","s","e","a","r","c","h">>
                THEN /\ \A i \in 1..n : conns[c].calls[i][1] = "Script::Pattern::FindMem"
                     /\ \E k \in {n, n - 1} :
                           k >= 0 /\ Contains(Response(c).body,
                                              <<"{","\"","c","o","u","n","t","\"",":">> \o ToDec(k) \o <<",">>)
                ELSE n = 1

\* C10: /status has returned after its two engine calls
C10_StatusMadeTwoCalls ==
    \E c \in Conns :
        /\ Validated(c)
        /\ conns[c].path = <<"/","s","t","a","t","u","s">>
        /\ Len(conns[c].calls) = 2

\* the bytes hold a CRLF-terminated request line with at least two spaces
\* (method, target and what follows the target)
HasRequestLine(request) ==
    \E e \in 1..Len(request) :
        /\ e < Len(request) /\ request[e] = "\r" /\ request[e + 1] = "\n"
        /\ \A f \in 1..(e - 1) : ~(request[f] = "\r" /\ request[f + 1] = "\n")
        /\ Cardinality({i \in 1..(e - 1) : request[i] = " "}) >= 2

\* the server thread has read connection c (or failed to) and not yet closed it
Read(c) == conns[c].st \in {"engine", "responded"}

\* C11: when recv returned zero or a negative value (no bytes), or the bytes
\* hold no CRLF-terminated request line that splits on two spaces, then
\* HandleRequest is not called, no engine call is made, nothing is written to
\* the connection, and the server thread stands at closesocket(clientSocket),
\* from where it goes back to the loop condition; a request that has such a line is handed to
\* HandleRequest, and a connection closed without a handler call had zero
\* responses written.
C11_UnparsableRequestDropped ==
    \A c \in Conns :
        /\ (Read(c) /\ ~HasRequestLine(conns[c].request)) =>
              /\ ~conns[c].handled
              /\ conns[c].calls = << >>
              /\ conns[c].sent = << >>
              /\ conns[c].st = "responded"
              /\ srvPc = "serving"
              /\ ENABLED SrvCloseClient(c)
        /\ (Read(c) /\ HasRequestLine(conns[c].request)) => conns[c].handled
        /\ (conns[c].st = "closed" /\ ~conns[c].handled) => conns[c].nsent = 0

\* C11: a request line without the HTTP version token was read and dropped
\* without a handler call or a byte written, after another connection was
\* closed unanswered
C11_TruncatedLineAndFailedReadDropped ==
    \E c, d \in Conns :
        /\ conns[c].st = "closed" /\ ~conns[c].handled /\ conns[c].nsent = 0
        /\ conns[d].st = "responded" /\ ~conns[d].handled /\ conns[d].sent = << >>
        /\ conns[d].request = <<"G","E","T"," ","/","s","t","a","t","u","s","\r","\n","\r","\n">>

\* the server thread serves no connection: it is at the loop condition, at
\* accept, in Sleep after a failed accept, or past the loop
BetweenIterations == srvPc \in {"loop", "accept", "sleep", "cleanup", "exited"}

\* C12: every accepted client socket is closed exactly once, in the iteration
\* that accepted it and before the next accept is attempted (outside the loop
\* body no accepted connection is open), on every path; a connection is read
\* at most once and dispatched at most once: once read it is never read again,
\* and a closed connection is never touched again.
C12_ClosedOnceInItsIteration ==
    /\ [](\A c \in Conns :
            /\ conns[c].closes = (IF conns[c].st = "closed" THEN 1 ELSE 0)
            /\ BetweenIterations => c \notin Active)
    /\ [][\A c \in Conns :
            /\ conns[c].st \in {"engine", "responded"} =>
                  conns'[c].st \in {"engine", "responded", "closed"}
            /\ conns[c].st = "responded" =>
                  /\ conns'[c].st \in {"responded", "closed"}
                  /\ conns'[c].st = "responded" => conns'[c] = conns[c]
            /\ conns[c].st = "closed" => conns'[c] = conns[c]]_vars

\* C12: the first connection was closed once after its response; the second
\* is at closesocket after a handler exception, with the first still closed once
C12_ClosedAfterResponseAndAfterException ==
    /\ conns[1].st = "closed" /\ conns[1].handled /\ conns[1].closes = 1
    /\ conns[2].st = "responded" /\ conns[2].threw /\ conns[2].closes = 0

\* pluginStop has executed g_running = false
StopRequested == hostPc \in {"stop_socket", "stop_clear", "stop_wait", "stopped"}

\* C13: clearing the running flag does not interrupt a request in flight: a
\* connection that is accepted and not yet closed when running is false is
\* still read, answered (one response if HandleRequest was called for it) and
\* closed; the flag stays false; the next evaluation of the loop condition
\* leaves the loop, and a thread that has left the loop accepts and handles
\* nothing more.
C13_InFlightRequestCompletes ==
    /\ \A c \in Conns :
          (StopRequested /\ c \in Active)
              ~> (conns[c].st = "closed"
                  /\ conns[c].nsent = (IF conns[c].handled THEN 1 ELSE 0))
    /\ [][/\ StopRequested => ~g_running'
          /\ (StopRequested /\ srvPc = "loop" /\ srvPc' # "loop") => srvPc' = "cleanup"
          /\ srvPc \in {"cleanup", "exited"} =>
                /\ srvPc' \in {"cleanup", "exited"}
                /\ \A c \in Conns : conns'[c].st \in {"accepted", "engine", "responded"}
                                        => conns'[c] = conns[c]]_vars

\* C13: pluginStop has just cleared the flag while the handler of a request is
\* inside an engine call
C13_StopDuringEngineCall ==
    /\ hostPc = "stop_socket" /\ ~g_running
    /\ \E c \in Conns : conns[c].st = "engine" /\ conns[c].handled

\* the server thread is in the accept loop
InLoop == srvPc \in {"loop", "accept", "sleep", "serving"}

\* the listening socket is closed and g_serverSocket holds INVALID_SOCKET
Released == listenSock.st = "closed" /\ g_serverSocket = "INVALID_SOCKET"

\* C14: once pluginStop has set running to false, a server thread that is in
\* the accept loop eventually leaves it and terminates, with the listening
\* socket closed and g_serverSocket equal to INVALID_SOCKET, under fair
\* scheduling of the server thread alone (wherever pluginStop stands).
C14_StopEndsThreadAndReleasesSocket ==
    (StopRequested /\ InLoop) ~> (srvPc = "exited" /\ Released)

\* C14: the thread has served a connection, pluginStop has cleared the flag and
\* not yet closed the socket, and the thread has left the loop, returned and
\* released the socket itself
C14_ThreadExitedAfterStop ==
    /\ hostPc = "stop_socket"
    /\ srvPc = "exited" /\ Released /\ listenSock.closes = 1
    /\ \E c \in Conns : conns[c].st = "closed"

\* C15: while running is true a failed accept never ends the accept loop: the
\* thread goes to Sleep(10) and from there back to the loop condition, whatever
\* made accept fail (nothing queued, or an error with a connection queued);
\* the thread leaves the loop only in a state in which running is false.
C15_FailedAcceptRetries ==
    [][/\ (srvPc = "accept" /\ g_running /\ srvPc' # "accept") =>
              srvPc' \in {"serving", "sleep"}
       /\ (srvPc = "sleep" /\ srvPc' # "sleep") => srvPc' = "loop"
       /\ (InLoop /\ srvPc' \notin {"loop", "accept", "sleep", "serving"}) =>
              (~g_running /\ srvPc' = "cleanup")]_vars

\* C15: with running true the thread sleeps after an accept that failed while
\* a connection was queued, one connection having been served before
C15_SleepingAfterFailedAccept ==
    /\ srvPc = "sleep" /\ g_running
    /\ \E c, d \in Conns : conns[c].st = "closed" /\ conns[d].st = "pending"

\* the server thread is between its start and the accept loop
InSetup == srvPc \in {"WSAStartup", "socket", "bind", "listen"}

\* C16: the server thread goes on from socket, bind and listen only when the
\* call succeeded and otherwise exits; when it exits from the set-up no
\* connection was ever queued, accepted or handled, and an exited thread
\* accepts and handles nothing; the host thread does not depend on it:
\* pluginInit goes on to return true and the host can go on to pluginStop.
C16_SetupFailureEndsThreadOnly ==
    /\ [][/\ (InSetup /\ srvPc' # srvPc) =>
                \/ srvPc' = "exited" /\ \A c \in Conns : conns'[c] = Fresh
                \/ srvPc = "WSAStartup" /\ srvPc' = "socket"
                \/ srvPc = "socket" /\ srvPc' = "bind" /\ g_serverSocket' = "sock"
                      /\ listenSock'.st = "created"
                \/ srvPc = "bind" /\ srvPc' = "listen" /\ listenSock'.st = "bound"
                \/ srvPc = "listen" /\ srvPc' = "loop" /\ listenSock'.st = "listening"
          /\ srvPc = "exited" =>
                /\ srvPc' = "exited"
                /\ \A c \in Conns : conns'[c].st \in {"accepted", "engine", "responded"}
                                        => conns'[c] = conns[c]]_vars
    /\ [](hostPc = "created" => ENABLED InitSetRunning)
    /\ [](hostPc = "loaded" => ENABLED StopClearRunning)

\* C16: bind or listen failed (the thread exited and left the handle value in
\* g_serverSocket), pluginInit has returned and set the running flag
C16_ThreadGoneHostLoaded ==
    /\ srvPc = "exited" /\ g_serverSocket = "sock" /\ listenSock.st = "closed"
    /\ hostPc = "loaded" /\ g_running
    /\ \A c \in Conns : conns[c] = Fresh

IsHexData(data) ==
    /\ Len(data) % 2 = 0
    /\ \A i \in 1..Len(data) : DigitVal(data[i]) < 16

\* a request for a registered path carries a correct value for every
\* parameter its handler requires: each is present, a number where the handler
\* converts it, a register or flag name where the handler looks one up, hex
\* byte pairs for the data of /memory/write, and no more than 1 MB for the
\* size of /memory/read
CorrectParams(path, params, a) ==
    /\ path \in Routes
    /\ RequiredParams(path) \subseteq DOMAIN params
    /\ \A k \in NumericParams(path) : Stoull(params[k]).status = "ok"
    /\ path \in {<<"/","r","e","g","i","s","t","e","r","/","g","e","t">>, <<"/","r","e","g","i","s","t","e","r","/","s","e","t">>} =>
          ParseRegister(params[<<"n","a","m","e">>], a).err = << >>
    /\ path \in {<<"/","f","l","a","g","/","g","e","t">>, <<"/","f","l","a","g","/","s","e","t">>} => ParseFlag(params[<<"f","l","a","g">>]).ok
    /\ path = <<"/","m","e","m","o","r","y","/","w","r","i","t","e">> => IsHexData(params[<<"d","a","t","a">>])
    /\ path = <<"/","m","e","m","o","r","y","/","r","e","a","d">> =>
          ~Less(FromNat(MAX_READ_SIZE), Stoull(params[<<"s","i","z","e">>]).val)

\* the routes that answer with a JSON array of records
ListRoutes ==
    {<<"/","m","o","d","u","l","e","s">>, <<"/","s","y","m","b","o","l","s","/","l","i","s","t">>, <<"/","l","a","b","e","l","/","l","i","s","t">>, <<"/","c","o","m","m","e","n","t","/","l","i","s","t">>,
     <<"/","f","u","n","c","t","i","o","n","/","l","i","s","t">>, <<"/","b","o","o","k","m","a","r","k","/","l","i","s","t">>}

\* the members API-REFERENCE.md documents for the response of a route, in
\* order (for a list route: of one record); empty where the reference shows
\* no response
DocumentedKeys(path) ==
    CASE path = <<"/","s","t","a","t","u","s">> -> <<<<"v","e","r","s","i","o","n">>, <<"a","r","c","h">>, <<"d","e","b","u","g","g","i","n","g">>, <<"r","u","n","n","i","n","g">>>>
      [] path = <<"/","c","m","d">> -> <<<<"s","u","c","c","e","s","s">>, <<"c","o","m","m","a","n","d">>>>
      [] path = <<"/","r","e","g","i","s","t","e","r","/","g","e","t">> -> <<<<"r","e","g","i","s","t","e","r">>, <<"v","a","l","u","e">>>>
      [] path = <<"/","m","e","m","o","r","y","/","r","e","a","d">> -> <<<<"a","d","d","r","e","s","s">>, <<"s","i","z","e">>, <<"d","a","t","a">>>>
      [] path = <<"/","m","e","m","o","r","y","/","w","r","i","t","e">> -> <<<<"s","u","c","c","e","s","s">>, <<"b","y","t","e","s","_","w","r","i","t","t","e","n">>>>
      [] path = <<"/","p","a","t","t","e","r","n","/","f","i","n","d","_","m","e","m">> -> <<<<"f","o","u","n","d">>, <<"a","d","d","r","e","s","s">>>>
      [] path = <<"/","m","e","m","o","r","y","/","s","e","a","r","c","h">> -> <<<<"c","o","u","n","t">>, <<"r","e","s","u","l","t","s">>>>
      [] path = <<"/","d","i","s","a","s","m">> -> <<<<"a","d","d","r","e","s","s">>, <<"i","n","s","t","r","u","c","t","i","o","n">>, <<"s","i","z","e">>>>
      [] path = <<"/","m","o","d","u","l","e","s">> -> <<<<"n","a","m","e">>, <<"b","a","s","e">>, <<"s","i","z","e">>, <<"e","n","t","r","y">>, <<"p","a","t","h">>>>
      [] path = <<"/","s","y","m","b","o","l","s","/","l","i","s","t">> ->
            <<<<"m","o","d","u","l","e">>, <<"r","v","a">>, <<"n","a","m","e">>, <<"m","a","n","u","a","l">>, <<"t","y","p","e">>>>
      [] path \in {<<"/","l","a","b","e","l","/","l","i","s","t">>, <<"/","c","o","m","m","e","n","t","/","l","i","s","t">>} ->
            <<<<"m","o","d","u","l","e">>, <<"r","v","a">>, <<"t","e","x","t">>, <<"m","a","n","u","a","l">>>>
      [] path = <<"/","f","u","n","c","t","i","o","n","/","l","i","s","t">> ->
            <<<<"m","o","d","u","l","e">>, <<"r","v","a","_","s","t","a","r","t">>, <<"r","v","a","_","e","n","d">>, <<"m","a","n","u","a","l">>, <<"i","n","s","t","r","u","c","t","i","o","n","_","c","o","u","n","t">>>>
      [] path = <<"/","b","o","o","k","m","a","r","k","/","l","i","s","t">> -> <<<<"m","o","d","u","l","e">>, <<"r","v","a">>, <<"m","a","n","u","a","l">>>>
      [] path \in {<<"/","l","a","b","e","l","/","g","e","t">>, <<"/","c","o","m","m","e","n","t","/","g","e","t">>} -> <<<<"s","u","c","c","e","s","s">>, <<"t","e","x","t">>>>
      [] path = <<"/","l","a","b","e","l","/","f","r","o","m","_","s","t","r","i","n","g">> -> <<<<"s","u","c","c","e","s","s">>, <<"a","d","d","r","e","s","s">>>>
      [] path = <<"/","s","t","a","c","k","/","p","u","s","h">> -> <<<<"s","u","c","c","e","s","s">>, <<"p","r","e","v","i","o","u","s","_","t","o","p">>>>
      [] path = <<"/","s","t","a","c","k","/","p","o","p">> -> <<<<"s","u","c","c","e","s","s">>, <<"v","a","l","u","e">>>>
      [] path = <<"/","s","t","a","c","k","/","p","e","e","k">> -> <<<<"s","u","c","c","e","s","s">>, <<"o","f","f","s","e","t">>, <<"v","a","l","u","e">>>>
      [] path = <<"/","f","u","n","c","t","i","o","n","/","g","e","t">> ->
            <<<<"s","u","c","c","e","s","s">>, <<"s","t","a","r","t">>, <<"e","n","d">>, <<"i","n","s","t","r","u","c","t","i","o","n","_","c","o","u","n","t">>>>
      [] path = <<"/","b","o","o","k","m","a","r","k","/","g","e","t">> -> <<<<"e","x","i","s","t","s">>>>
      [] path = <<"/","m","i","s","c","/","p","a","r","s","e","_","e","x","p","r","e","s","s","i","o","n">> ->
            <<<<"s","u","c","c","e","s","s">>, <<"e","x","p","r","e","s","s","i","o","n">>, <<"v","a","l","u","e">>>>
      [] path = <<"/","m","i","s","c","/","g","e","t","_","p","r","o","c","_","a","d","d","r","e","s","s">> ->
            <<<<"s","u","c","c","e","s","s">>, <<"m","o","d","u","l","e">>, <<"a","p","i">>, <<"a","d","d","r","e","s","s">>>>
      [] path = <<"/","m","i","s","c","/","r","e","s","o","l","v","e","_","l","a","b","e","l">> -> <<<<"s","u","c","c","e","s","s">>, <<"l","a","b","e","l">>, <<"a","d","d","r","e","s","s">>>>
      [] path \in {<<"/","r","e","g","i","s","t","e","r","/","s","e","t">>, <<"/","p","a","t","t","e","r","n","/","s","e","a","r","c","h","_","r","e","p","l","a","c","e","_","m","e","m">>,
                   <<"/","b","r","e","a","k","p","o","i","n","t","/","s","e","t">>, <<"/","b","r","e","a","k","p","o","i","n","t","/","d","e","l","e","t","e">>, <<"/","l","a","b","e","l","/","s","e","t">>,
                   <<"/","f","u","n","c","t","i","o","n","/","a","d","d">>} -> <<<<"s","u","c","c","e","s","s">>>>
      [] OTHER -> << >>

\* "key": with the quotes and the colon, as it stands in a JSON text
Member(key) == <<"\"">> \o key \o <<"\"",":">>

\* body is a JSON text of the shape documented for path: an object (for a
\* list route an array, empty or of objects) that opens with the first
\* documented member and holds the others, in the documented order
DocumentedShape(path, body) ==
    LET keys == DocumentedKeys(path)
        open == IF path \in ListRoutes THEN <<"[","{">> ELSE <<"{">>
        close == IF path \in ListRoutes THEN <<"}","]">> ELSE <<"}">>
        Ordered(at) ==
            /\ \A i \in 1..Len(keys) : at[i] # 0
            /\ \A i \in 1..(Len(keys) - 1) : at[i] < at[i + 1]
            /\ keys # << >> => at[1] = Len(open) + 1
    IN  \/ path \in ListRoutes /\ body = <<"[","]">>
        \/ /\ Len(body) >= Len(open) + Len(close)
           /\ SubStr(body, 1, Len(open)) = open
           /\ SubStrFrom(body, Len(body) - Len(close) + 1) = close
           /\ Ordered([i \in 1..Len(keys) |-> FindStr(body, Member(keys[i]))])

\* C18, as the claim states it: for every registered path, a request with
\* that exact path and correct values for all required parameters is answered
\* HTTP 200 with a JSON body of the shape documented for the endpoint.
C18_CorrectRequestAnswered200 ==
    \A c \in Conns :
        (Returned(c) /\ CorrectParams(conns[c].path, conns[c].params, arch)) =>
            /\ Json200(c)
            /\ DocumentedShape(conns[c].path, Response(c).body)

\* C18, amended: such a request is answered HTTP 200 application/json with a
\* body of the documented shape, whether or not the engine operation
\* succeeded, except that /memory/read and the six list endpoints answer 500
\* text/plain when the engine operation fails.
C18_CorrectRequestAnswered200UnlessReadOrListFails ==
    \A c \in Conns :
        (Returned(c) /\ CorrectParams(conns[c].path, conns[c].params, arch)) =>
            IF conns[c].failed /\ conns[c].path \in FailsWith500
            THEN Failed500(c)
            ELSE /\ Json200(c)
                 /\ DocumentedShape(conns[c].path, Response(c).body)

\* C18: /disasm?addr=0x1000 was answered 200 with address, instruction and size
C18_DisasmAnswered ==
    \E c \in Conns :
        /\ Returned(c)
        /\ conns[c].path = <<"/","d","i","s","a","s","m">>
        /\ CorrectParams(conns[c].path, conns[c].params, arch)
        /\ Response(c) = SendResponse(200, AppJson,
               <<"{","\"","a","d","d","r","e","s","s","\"",":","\"","0","x","1","0","0","0","\"",",","\"","i","n","s","t","r","u","c","t","i","o","n","\"",":","\"","n","o","p","\"",",","\"","s","i","z","e","\"",":","1","}">>)

\* C19: what UrlDecode returns for the percent-encoding of a text over
\* %, +, &, =, space, a letter and a digit (with the space sent as %20 or as
\* +) is that text, and what ParseQuery returns for encode(k) = encode(v) is
\* the map with the one entry k -> v.
C19_EncodedTextDecodesToItself ==
    /\ (/\ applied = "UrlDecode"
        /\ Len(input.from) = 1
        /\ input.text \in {PercentEncode(input.from[1]), FormEncode(input.from[1])})
          => output = input.from[1]
    /\ (/\ applied = "ParseQuery"
        /\ Len(input.from) = 2
        /\ input.text = PercentEncode(input.from[1]) \o <<"=">> \o PercentEncode(input.from[2]))
          => output = (input.from[1] :> input.from[2])

\* C19: the key %+ and the value &= were sent as %25%2B=%26%3D and parsed
\* into the entry %+ -> &=
C19_ReservedPairParsed ==
    /\ applied = "ParseQuery"
    /\ input = [text |-> <<"%","2","5","%","2","B","=","%","2","6","%","3","D">>, from |-> <<<<"%","+">>, <<"&","=">>>>]
    /\ output = (<<"%","+">> :> <<"&","=">>)

\* the positions at which a segment of query starts: the first one, and the
\* one after every &
SegmentStarts(query) ==
    {p \in 1..Len(query) : p = 1 \/ query[p - 1] = "&"}

\* the segment of query that starts at position p: up to the next & or the end
SegmentAt(query, p) ==
    SubStr(query, p, SetMin({i \in p..(Len(query) + 1) :
                                i = Len(query) + 1 \/ query[i] = "&"}) - p)

\* a segment before and after its first =
BeforeEq(seg) == SubStr(seg, 1, Find(seg, "=", 1) - 1)

AfterEq(seg) == SubStrFrom(seg, Find(seg, "=", 1) + 1)

\* C20: the map ParseQuery returns has exactly the keys that stand, decoded,
\* before the first = of a segment with an =; a segment without = adds no
\* entry; each key has the one value that stands, decoded, after the first =
\* of the last segment with that key, later = included; a %26 or %3D is
\* decoded after the split and never splits.
C20_LastValueOfEachKey ==
    applied = "ParseQuery" =>
        LET withEq == {p \in SegmentStarts(input.text) : Find(SegmentAt(input.text, p), "=", 1) # 0}
            KeyAt(p) == UrlDecode(BeforeEq(SegmentAt(input.text, p)))
        IN  /\ DOMAIN output = {KeyAt(p) : p \in withEq}
            /\ \A p \in withEq :
                  (\A q \in withEq : q > p => KeyAt(q) # KeyAt(p)) =>
                      output[KeyAt(p)] = UrlDecode(AfterEq(SegmentAt(input.text, p)))

\* C20: a=1&%61=1=2&a was parsed: one entry for a, with the value 1=2 of the
\* second segment
C20_RepeatedKeyParsed ==
    /\ applied = "ParseQuery"
    /\ input.text = <<"a","=","1","&","%","6","1","=","1","=","2","&","a">>
    /\ output = (<<"a">> :> <<"1","=","2">>)

\* C20: a%3D1=2&a=1%262 was parsed: the encoded = and & did not split
C20_EncodedSeparatorsKept ==
    /\ applied = "ParseQuery"
    /\ input.text = <<"a","%","3","D","1","=","2","&","a","=","1","%","2","6","2">>
    /\ output = (<<"a","=","1">> :> <<"2">> @@ <<"a">> :> <<"1","&","2">>)


\* ---------------------------------------------------------- claims 21 - 30
\* every character of s from position p on is a digit of the base
AllDigits(s, p, base) == \A i \in p..Len(s) : DigitVal(s[i]) < base

\* s starts with 0x
HasHexPrefix(s) == Len(s) >= 2 /\ s[1] = "0" /\ s[2] \in {"x", "X"}

\* the whole of s is an integer literal: 0x and hexadecimal digits, or
\* decimal digits
IsLiteral(s) ==
    IF HasHexPrefix(s) THEN Len(s) > 2 /\ AllDigits(s, 3, 16)
    ELSE Len(s) > 0 /\ AllDigits(s, 1, 10)

RECURSIVE DigitsValue(_, _, _, _)
\* the number the digits of s from position p on write in the base, after
\* the digits that gave val; ovf: it is not below 2^64
DigitsValue(s, p, base, acc) ==
    IF p > Len(s) THEN acc
    ELSE LET Next1(m) ==
                 DigitsValue(s, p + 1, base, [val |-> m.val, ovf |-> acc.ovf \/ m.carry])
         IN  Next1(MulAdd(acc.val, base, DigitVal(s[p])))

\* the number a literal writes: hexadecimal after 0x, decimal otherwise
LiteralValue(s) ==
    IF HasHexPrefix(s) THEN DigitsValue(s, 3, 16, [val |-> Zero, ovf |-> FALSE])
    ELSE DigitsValue(s, 1, 10, [val |-> Zero, ovf |-> FALSE])

\* the literal s writes a value of duint on the build a
IsAddrLiteral(s, a) ==
    /\ IsLiteral(s)
    /\ ~LiteralValue(s).ovf
    /\ ToDuint(LiteralValue(s).val, a) = LiteralValue(s).val

\* the literal s writes a value of int
IsIntLiteral(s) ==
    /\ IsLiteral(s)
    /\ ~LiteralValue(s).ovf
    /\ FitsNat(LiteralValue(s).val)

\* C21: GetParamAddr and GetParamInt return true exactly when the key is in
\* the map and the whole of its value is an integer literal, hexadecimal after
\* 0x and decimal otherwise, and then out is the number the literal writes.
C21_WholeLiteralParsed ==
    /\ applied = "GetParamAddr" =>
          /\ output.result.ok <=> (/\ output.key \in DOMAIN output.params
                                   /\ IsAddrLiteral(output.params[output.key], arch))
          /\ output.result.ok =>
                 output.result.value = LiteralValue(output.params[output.key]).val
    /\ applied = "GetParamInt" =>
          /\ output.result.ok <=> (/\ output.key \in DOMAIN output.params
                                   /\ IsIntLiteral(output.params[output.key]))
          /\ output.result.ok =>
                 output.result.value = ToNat(LiteralValue(output.params[output.key]).val)

\* C21: GetParamAddr returned true and 12 for the value 12zz
C21_TrailingTextAccepted ==
    /\ applied = "GetParamAddr"
    /\ output.params = (<<"a","d","d","r">> :> <<"1","2","z","z">>)
    /\ output.result.ok
    /\ output.result.value = FromNat(12)

\* GetParamInt returned true and 8 for the value 010
C21_LeadingZeroReadAsOctal ==
    /\ applied = "GetParamInt"
    /\ output.params = (<<"m","a","x">> :> <<"0","1","0">>)
    /\ output.result.ok
    /\ output.result.value = 8

\* GetParamAddr returned true and 2^64 - 1 for the value -1 on the x64 build
C21_MinusOneAccepted ==
    /\ applied = "GetParamAddr"
    /\ arch = 64
    /\ output.params = (<<"a","d","d","r">> :> <<"-","1">>)
    /\ output.result.ok
    /\ output.result.value = <<LimbBase - 1, LimbBase - 1, LimbBase - 1, LimbBase - 1>>

\* GetParamAddr returned true and 16 for the value 0x100000010 on the x32 build
C21_TruncatedOn32 ==
    /\ applied = "GetParamAddr"
    /\ arch = 32
    /\ output.params = (<<"a","d","d","r">> :> <<"0","x","1","0","0","0","0","0","0","1","0">>)
    /\ output.result.ok
    /\ output.result.value = FromNat(16)

\* every literal of the result type is accepted with its value, and an
\* absent key is reported as failure
C21_LiteralsAccepted ==
    /\ applied = "GetParamAddr" =>
          /\ output.key \notin DOMAIN output.params => ~output.result.ok
          /\ (/\ output.key \in DOMAIN output.params
              /\ IsAddrLiteral(output.params[output.key], arch)
              /\ ~(Len(output.params[output.key]) > 1 /\ output.params[output.key][1] = "0"
                   /\ ~HasHexPrefix(output.params[output.key])))
                => /\ output.result.ok
                   /\ output.result.value = LiteralValue(output.params[output.key]).val

\* C22: with the key absent GetParamBool returns false and out keeps the
\* caller's value; with the key present it returns true, and out is true for
\* the values true, 1 and yes in exactly this spelling and false for every
\* other value.
C22_BoolWordsOnly ==
    applied = "GetParamBool" =>
        IF output.key \in DOMAIN output.params
        THEN /\ output.result.ok
             /\ output.result.value <=>
                    \/ output.params[output.key] = <<"t", "r", "u", "e">>
                    \/ output.params[output.key] = <<"1">>
                    \/ output.params[output.key] = <<"y", "e", "s">>
        ELSE /\ ~output.result.ok
             /\ output.result.value = output.dflt

\* C22: the value True was found and read as false, although out was true
\* before the call
C22_OtherSpellingReadAsFalse ==
    /\ applied = "GetParamBool"
    /\ output.params = (<<"v","a","l","u","e">> :> <<"T","r","u","e">>)
    /\ output.dflt
    /\ output.result.ok
    /\ ~output.result.value

\* the key was absent and out kept the value true
C22_AbsentKeepsDefault ==
    /\ applied = "GetParamBool"
    /\ output.params = EmptyMap
    /\ output.dflt
    /\ ~output.result.ok
    /\ output.result.value

\* the header block of the wire text w, from the CRLF that ends the status
\* line to the CRLF that ends the last header
HeaderBlock(w) == SubStr(w, FindStr(w, <<"\r","\n">>), FindStr(w, <<"\r","\n","\r","\n">>) - FindStr(w, <<"\r","\n">>) + 2)

\* what follows the empty line of the wire text w
BodyOf(w) == SubStrFrom(w, FindStr(w, <<"\r","\n","\r","\n">>) + 4)

\* the header block has the line name: value
HasHeader(w, name, value) ==
    Contains(HeaderBlock(w), <<"\r","\n">> \o name \o <<":"," ">> \o value \o <<"\r","\n">>)

\* the value of the first header name of the block, up to the end of its line
HeaderValue(w, name) ==
    LET block == HeaderBlock(w)
        start == FindStr(block, <<"\r","\n">> \o name \o <<":"," ">>) + Len(name) + 4
        rest == SubStrFrom(block, start)
    IN  SubStr(rest, 1, FindStr(rest, <<"\r","\n">>) - 1)

\* the status code of the wire text w: the three digits after HTTP/1.1
StatusCodeOf(w) ==
    IF SubStr(w, 1, 9) = <<"H","T","T","P","/","1",".","1"," ">> /\ w[13] = " " /\ AllDigits(SubStr(w, 10, 3), 1, 10)
    THEN ToNat(DigitsValue(SubStr(w, 10, 3), 1, 10, [val |-> Zero, ovf |-> FALSE]).val)
    ELSE 0

\* the wire text w is a response with one of the four status codes, the four
\* headers and a Content-Length that is the length of what follows the
\* empty line
WellFormedResponse(w) ==
    /\ FindStr(w, <<"\r","\n","\r","\n">>) # 0
    /\ StatusCodeOf(w) \in {200, 400, 404, 500}
    /\ Contains(HeaderBlock(w), <<"\r","\n","C","o","n","t","e","n","t","-","T","y","p","e",":"," ">>)
    /\ HeaderValue(w, <<"C","o","n","t","e","n","t","-","T","y","p","e">>) # << >>
    /\ HasHeader(w, <<"A","c","c","e","s","s","-","C","o","n","t","r","o","l","-","A","l","l","o","w","-","O","r","i","g","i","n">>, <<"*">>)
    /\ HasHeader(w, <<"C","o","n","n","e","c","t","i","o","n">>, <<"c","l","o","s","e">>)
    /\ Contains(HeaderBlock(w), <<"\r","\n","C","o","n","t","e","n","t","-","L","e","n","g","t","h",":"," ">>)
    /\ HeaderValue(w, <<"C","o","n","t","e","n","t","-","L","e","n","g","t","h">>) # << >>
    /\ AllDigits(HeaderValue(w, <<"C","o","n","t","e","n","t","-","L","e","n","g","t","h">>), 1, 10)
    /\ ToNat(DigitsValue(HeaderValue(w, <<"C","o","n","t","e","n","t","-","L","e","n","g","t","h">>), 1, 10,
                         [val |-> Zero, ovf |-> FALSE]).val) = Len(BodyOf(w))

\* C23: every response written to a connection has a status code of 200, 400,
\* 404 or 500, the headers Content-Type, Content-Length,
\* Access-Control-Allow-Origin: * and Connection: close, and a Content-Length
\* that is the number of bytes after the empty line.
C23_ResponsesWellFormed ==
    \A c \in Conns :
        \A i \in 1..Len(conns[c].sent) :
            /\ WellFormedResponse(WireText(conns[c].sent[i]))
            /\ BodyOf(WireText(conns[c].sent[i])) = conns[c].sent[i].body
            /\ StatusCodeOf(WireText(conns[c].sent[i])) = conns[c].sent[i].code

\* C23: a 200 was written whose body has ten bytes or more, so that its
\* Content-Length has two digits or more
C23_LongBodyWritten ==
    \E c \in Conns :
        /\ Returned(c)
        /\ Len(conns[c].sent) = 1
        /\ Response(c).code = 200
        /\ Len(Response(c).body) > 9
        /\ HeaderValue(WireText(Response(c)), <<"C","o","n","t","e","n","t","-","L","e","n","g","t","h">>) = ToDec(Len(Response(c).body))

\* the digits 0-9 and a-f
LowerHexDigits ==
    {"0", "1", "2", "3", "4", "5", "6", "7", "8", "9", "a", "b", "c", "d", "e", "f"}

C24_LargestRendered ==
    /\ applied = "ToHex"
    /\ arch = 64
    /\ input.text \in {<<"0","x","f","f","f","f","f","f","f","f","f","f","f","f","f","f","f","f">>, <<"0","x","A","B","C","D","E","F">>}
    /\ output.text \in {<<"0","x","f","f","f","f","f","f","f","f","f","f","f","f","f","f","f","f">>, <<"0","x","a","b","c","d","e","f">>}

\* the text of the body between the first occurrence of before and the next
\* occurrence of after
Between(body, before, after) ==
    LET rest == SubStrFrom(body, FindStr(body, before) + Len(before))
    IN  SubStr(rest, 1, FindStr(rest, after) - 1)

\* the decimal number a text of digits writes (below 2^31)
DecimalOf(digits) == ToNat(DigitsValue(digits, 1, 10, [val |-> Zero, ovf |-> FALSE]).val)

\* data writes the bytes in their order, each as two digits out of 0-9 and
\* a-f, the high one first
RendersBytes(data, bytes) ==
    /\ Len(data) = 2 * Len(bytes)
    /\ \A i \in 1..Len(bytes) :
          /\ data[2 * i - 1] \in LowerHexDigits
          /\ data[2 * i] \in LowerHexDigits
          /\ DigitVal(data[2 * i - 1]) * 16 + DigitVal(data[2 * i]) = bytes[i]

\* the size member and the hex member (data or bytes) of a body
SizeMember(body) == Between(body, <<"\"","s","i","z","e","\"",":">>, <<",">>)

HexMember(body, key) == Between(body, <<",","\"">> \o key \o <<"\"",":","\"">>, <<"\"">>)

C25_AssembledBytes ==
    \E c \in Conns :
        /\ Returned(c)
        /\ conns[c].path = <<"/","a","s","s","e","m","b","l","e","r","/","a","s","s","e","m","b","l","e">>
        /\ Response(c) = SendResponse(200, AppJson,
               <<"{","\"","s","u","c","c","e","s","s","\"",":","t","r","u","e",",","\"","s","i","z","e","\"",":","2",",","\"","b","y","t","e","s","\"",":","\"","9","0","0","a","\"","}">>)

RECURSIVE JsonUnescape(_)
\* what a JSON reader makes of the inside of a string: a backslash and the
\* character after it give one character, every other character is itself
JsonUnescape(str) ==
    IF str = << >> THEN << >>
    ELSE IF str[1] = "\\" /\ Len(str) >= 2
    THEN <<CASE str[2] = "n" -> "\n"
             [] str[2] = "r" -> "\r"
             [] str[2] = "t" -> "\t"
             [] OTHER -> str[2]>> \o JsonUnescape(SubStrFrom(str, 3))
    ELSE <<str[1]>> \o JsonUnescape(Tail(str))

\* the positions of str that are not the second character of an escape: a
\* position is escaped when an odd number of backslashes stands before it
Unescaped(str, i) ==
    LET run == {k \in 0..(i - 1) : \A j \in (i - k)..(i - 1) : str[j] = "\\"}
        longest == CHOOSE k \in run : \A m \in run : m <= k
    IN  longest % 2 = 0

\* the characters JsonEscape replaces
Escaped == {"\"", "\\", "\n", "\r", "\t"}

\* C26: JsonEscape writes a backslash and ", \, n, r or t for each quote,
\* backslash, line feed, carriage return and tab and every other character as
\* it is; every quote of the result is the second character of an escape,
\* and unescaping the result gives the text back.
C26_FiveCharactersEscaped ==
    applied = "JsonEscape" =>
        /\ Len(output) = Len(input.text)
                           + Cardinality({i \in 1..Len(input.text) : input.text[i] \in Escaped})
        /\ \A i \in 1..Len(input.text) :
              LET at == i + Cardinality({j \in 1..(i - 1) : input.text[j] \in Escaped})
              IN  IF input.text[i] \in Escaped
                  THEN /\ output[at] = "\\"
                       /\ output[at + 1] = (CASE input.text[i] = "\n" -> "n"
                                              [] input.text[i] = "\r" -> "r"
                                              [] input.text[i] = "\t" -> "t"
                                              [] OTHER -> input.text[i])
                  ELSE output[at] = input.text[i]
        /\ \A i \in 1..Len(output) : output[i] = "\"" => ~Unescaped(output, i)
        /\ JsonUnescape(output) = input.text

\* C26: the text of a quote, a backslash and a line feed was escaped
C26_QuoteBackslashNewlineEscaped ==
    /\ applied = "JsonEscape"
    /\ input.text = <<"\"","\\","\n">>
    /\ output = <<"\\","\"","\\","\\","\\","n">>

\* the text of a backslash and the letter n, which is not a line feed
C26_BackslashLetterKept ==
    /\ applied = "JsonEscape"
    /\ input.text = <<"\\","n">>
    /\ output = <<"\\","\\","n">>

\* what /register/get answers for the name it was sent when the registers
\* are regs
RegisterReadOf(name, regs) ==
    SendResponse(200, AppJson,
        <<"{","\"","r","e","g","i","s","t","e","r","\"",":","\"">> \o name \o <<"\"",",","\"","v","a","l","u","e","\"",":","\"">>
        \o <<"0","x">> \o HexDigits(regs[ToLower(name)]) \o <<"\"","}">>)

\* C27: the response of /register/get for a register name is determined by
\* the name and the value the register has, so that requests repeated while
\* the registers stay as they are get the same response; and no step of the
\* handling of a /register/get request changes a register.
C27_RegisterReadIdempotent ==
    /\ [](\A c \in Conns :
            (/\ Returned(c)
             /\ conns[c].path = <<"/","r","e","g","i","s","t","e","r","/","g","e","t">>
             /\ <<"n","a","m","e">> \in DOMAIN conns[c].params
             /\ ParseRegister(conns[c].params[<<"n","a","m","e">>], arch).err = << >>)
               => conns[c].sent = <<RegisterReadOf(conns[c].params[<<"n","a","m","e">>], registers)>>)
    /\ [][\A c \in Conns :
            (conns'[c] # conns[c] /\ <<"/","r","e","g","i","s","t","e","r","/","g","e","t">> \in {conns[c].path, conns'[c].path})
               => registers' = registers]_vars

\* C27: after a /register/set that wrote 0x1000 to eax, on a connection that
\* is closed, /register/get?name=eax was answered with the value 0x1000
C27_ReadAfterWrite ==
    \E c, d \in Conns :
        /\ conns[d].st = "closed"
        /\ registers[<<"e","a","x">>] = FromNat(4096)
        /\ Returned(c)
        /\ conns[c].params = (<<"n","a","m","e">> :> <<"e","a","x">>)
        /\ conns[c].calls = <<<<"Script::Register::Get", <<<<"e","a","x">>>>>>>>
        /\ Response(c) = SendResponse(200, AppJson, <<"{","\"","r","e","g","i","s","t","e","r","\"",":","\"","e","a","x","\"",",","\"","v","a","l","u","e","\"",":","\"","0","x","1","0","0","0","\"","}">>)

\* the path literals of the if / else-if chain of HandleRequest, in the order
\* of the chain
RouteOrder ==
    <<<<"/","s","t","a","t","u","s">>, <<"/","c","m","d">>, <<"/","r","e","g","i","s","t","e","r","/","g","e","t">>, <<"/","r","e","g","i","s","t","e","r","/","s","e","t">>, <<"/","m","e","m","o","r","y","/","r","e","a","d">>,
      <<"/","m","e","m","o","r","y","/","w","r","i","t","e">>, <<"/","p","a","t","t","e","r","n","/","f","i","n","d","_","m","e","m">>, <<"/","p","a","t","t","e","r","n","/","s","e","a","r","c","h","_","r","e","p","l","a","c","e","_","m","e","m">>,
      <<"/","m","e","m","o","r","y","/","s","e","a","r","c","h">>, <<"/","d","e","b","u","g","/","r","u","n">>, <<"/","d","e","b","u","g","/","p","a","u","s","e">>, <<"/","d","e","b","u","g","/","s","t","e","p">>,
      <<"/","d","e","b","u","g","/","s","t","e","p","o","v","e","r">>, <<"/","d","e","b","u","g","/","s","t","e","p","o","u","t">>, <<"/","b","r","e","a","k","p","o","i","n","t","/","s","e","t">>,
      <<"/","b","r","e","a","k","p","o","i","n","t","/","d","e","l","e","t","e">>, <<"/","d","i","s","a","s","m">>, <<"/","m","o","d","u","l","e","s">>, <<"/","s","y","m","b","o","l","s","/","l","i","s","t">>,
      <<"/","l","a","b","e","l","/","s","e","t">>, <<"/","l","a","b","e","l","/","g","e","t">>, <<"/","l","a","b","e","l","/","d","e","l","e","t","e">>, <<"/","l","a","b","e","l","/","f","r","o","m","_","s","t","r","i","n","g">>,
      <<"/","l","a","b","e","l","/","l","i","s","t">>, <<"/","c","o","m","m","e","n","t","/","s","e","t">>, <<"/","c","o","m","m","e","n","t","/","g","e","t">>, <<"/","c","o","m","m","e","n","t","/","d","e","l","e","t","e">>,
      <<"/","c","o","m","m","e","n","t","/","l","i","s","t">>, <<"/","s","t","a","c","k","/","p","u","s","h">>, <<"/","s","t","a","c","k","/","p","o","p">>, <<"/","s","t","a","c","k","/","p","e","e","k">>,
      <<"/","f","u","n","c","t","i","o","n","/","a","d","d">>, <<"/","f","u","n","c","t","i","o","n","/","g","e","t">>, <<"/","f","u","n","c","t","i","o","n","/","d","e","l","e","t","e">>, <<"/","f","u","n","c","t","i","o","n","/","l","i","s","t">>,
      <<"/","b","o","o","k","m","a","r","k","/","s","e","t">>, <<"/","b","o","o","k","m","a","r","k","/","g","e","t">>, <<"/","b","o","o","k","m","a","r","k","/","d","e","l","e","t","e">>, <<"/","b","o","o","k","m","a","r","k","/","l","i","s","t">>,
      <<"/","m","i","s","c","/","p","a","r","s","e","_","e","x","p","r","e","s","s","i","o","n">>, <<"/","m","i","s","c","/","r","e","s","o","l","v","e","_","l","a","b","e","l">>, <<"/","m","i","s","c","/","g","e","t","_","p","r","o","c","_","a","d","d","r","e","s","s">>,
      <<"/","a","s","s","e","m","b","l","e","r","/","a","s","s","e","m","b","l","e">>, <<"/","a","s","s","e","m","b","l","e","r","/","a","s","s","e","m","b","l","e","_","m","e","m">>, <<"/","f","l","a","g","/","g","e","t">>, <<"/","f","l","a","g","/","s","e","t">>,
      <<"/","f","l","a","g","s","/","g","e","t","_","a","l","l">>>>

\* a list in the opposite order
Reversed(order) == [i \in 1..Len(order) |-> order[Len(order) + 1 - i]]

\* the literal of the first branch of a chain in the given order whose
\* comparison with path holds; the empty string stands for the final else
ResolveIn(order, path) ==
    LET hits == {i \in 1..Len(order) : PathIs(path, order[i])}
    IN  IF hits = {} THEN << >> ELSE order[SetMin(hits)]

\* C28: no two branches of the chain compare the path with the same
\* literal, the literals are the registered routes, the path of every
\* request satisfies the comparison of at most one branch, the chain in the
\* opposite order selects the same branch for it, and the final else answers
\* exactly the paths that satisfy none.
C28_OneBranchPerPath ==
    /\ \A i, j \in 1..Len(RouteOrder) :
          i # j => ~PathIs(RouteOrder[i], RouteOrder[j])
    /\ {RouteOrder[i] : i \in 1..Len(RouteOrder)} = Routes
    /\ \A c \in Conns :
          Dispatched(c) =>
              /\ Cardinality({i \in 1..Len(RouteOrder) :
                                 PathIs(conns[c].path, RouteOrder[i])}) <= 1
              /\ ResolveIn(RouteOrder, conns[c].path)
                     = ResolveIn(Reversed(RouteOrder), conns[c].path)
              /\ ResolveIn(RouteOrder, conns[c].path) = << >>
                     <=> conns[c].sent = <<SendResponse(404, TextPlain, <<"E","n","d","p","o","i","n","t"," ","n","o","t"," ","f","o","u","n","d">>)>>

\* C28: /debug/stepover, which starts with the literal /debug/step of an
\* earlier branch, was handled by its own branch
C28_LongerPathOwnBranch ==
    \E c \in Conns :
        /\ Dispatched(c)
        /\ conns[c].path = <<"/","d","e","b","u","g","/","s","t","e","p","o","v","e","r">>
        /\ conns[c].calls = <<<<"Script::Debug::StepOver", << >>>>>>

RECURSIVE ListEntries(_)
\* the entries of a JSON list of strings, from the text between [ and ]
ListEntries(text) ==
    IF text = << >> THEN << >>
    ELSE <<SubStr(text, 2, Find(text, "\"", 2) - 2)>>
         \o ListEntries(SubStrFrom(text, Find(text, "\"", 2) + 2))

\* the count member and the entries of the results member of a
\* /memory/search body
CountMember(body) == Between(body, <<"{","\"","c","o","u","n","t","\"",":">>, <<",">>)

ResultEntries(body) == ListEntries(Between(body, <<"\"","r","e","s","u","l","t","s","\"",":","[">>, <<"]">>))

\* /memory/search has answered connection c with its list of results
SearchAnswered(c) ==
    /\ Returned(c)
    /\ conns[c].path = <<"/","m","e","m","o","r","y","/","s","e","a","r","c","h">>
    /\ Len(conns[c].sent) = 1
    /\ Response(c).code = 200

\* the count is the number of entries, and the entries are addresses of the
\* range that was searched, each above the one before
CountedAndOrdered(c) ==
    LET entries == ResultEntries(Response(c).body)
        At(i) == LiteralValue(entries[i]).val
    IN  /\ AllDigits(CountMember(Response(c).body), 1, 10)
        /\ DecimalOf(CountMember(Response(c).body)) = Len(entries)
        /\ \A i \in 1..Len(entries) :
              /\ IsAddrLiteral(entries[i], arch)
              /\ ~Less(At(i), conns[c].calls[1][2][1])
              /\ Less(At(i), AddWord(conns[c].calls[1][2][1], conns[c].calls[1][2][2], arch))
              /\ i > 1 => Less(At(i - 1), At(i))

\* the number of the max parameter of connection c, 100 when it is absent
\* or no number
MaxOf(c) ==
    IF <<"m","a","x">> \in DOMAIN conns[c].params /\ Stoi(conns[c].params[<<"m","a","x">>], 0).status = "ok"
    THEN Stoi(conns[c].params[<<"m","a","x">>], 0).val
    ELSE 100

\* C29: a /memory/search response has at most max entries in results, at
\* most 100 when max is absent, whatever max is; count is the number of
\* entries, and the entries are addresses inside [start, start + size), in
\* strictly increasing order.
C29_AtMostMaxResults ==
    \A c \in Conns :
        SearchAnswered(c) =>
            /\ Len(ResultEntries(Response(c).body)) <= MaxOf(c)
            /\ CountedAndOrdered(c)

\* C29: /memory/search with max=-1 was answered with a result
C29_NegativeMaxUnlimited ==
    \E c \in Conns :
        /\ SearchAnswered(c)
        /\ <<"m","a","x">> \in DOMAIN conns[c].params
        /\ conns[c].params[<<"m","a","x">>] = <<"-","1">>
        /\ Len(ResultEntries(Response(c).body)) >= 1
        /\ CountedAndOrdered(c)

\* with max absent, unparsable or not negative the bound holds, and count
\* and order hold for every max
C29_BoundedUnlessNegative ==
    \A c \in Conns :
        SearchAnswered(c) =>
            /\ MaxOf(c) >= 0 => Len(ResultEntries(Response(c).body)) <= MaxOf(c)
            /\ CountedAndOrdered(c)

\* two results were returned, in increasing order
C29_TwoResults ==
    \E c \in Conns :
        /\ SearchAnswered(c)
        /\ ResultEntries(Response(c).body) = <<<<"0","x","1","0","0","0">>, <<"0","x","1","0","0","1">>>>

\* C30: a server thread that has reached the accept loop, after a set-up
\* that succeeded, leaves the loop only after pluginStop has executed
\* g_running = false, under every interleaving with pluginInit.
C30_LoopLeftOnlyAfterStop ==
    [][(InLoop /\ srvPc' \notin {"loop", "accept", "sleep", "serving"}) => StopRequested]_vars

\* C30: the thread found g_running false at its first loop test, before
\* pluginInit had set it, and has returned through the clean-up; pluginInit
\* has then set g_running and returned, and no stop was requested
C30_ThreadGoneBeforeRunningSet ==
    /\ hostPc = "loaded"
    /\ g_running
    /\ g_serverThread = "thread"
    /\ srvPc = "exited"
    /\ Released
    /\ \A c \in Conns : conns[c].st = "idle"

\* ---------------------------------------------------------- claims 31 - 39
\* C31: closesocket is called at most once on the handle of the listening
\* socket, under every interleaving of pluginStop with the server thread and
\* after a failed bind or listen, and once the server thread has exited
\* g_serverSocket does not hold the handle of a closed socket.
C31_ListenSocketClosedOnce ==
    /\ listenSock.closes <= 1
    /\ (srvPc = "exited" /\ listenSock.st = "closed") => g_serverSocket = "INVALID_SOCKET"

\* C31: bind or listen failed, the thread closed the socket and returned
\* with the handle still in g_serverSocket, and pluginStop closed it again
C31_ClosedAgainAfterSetupFailure ==
    /\ listenSock.closes = 2
    /\ srvPc = "exited"
    /\ hostPc \in {"stop_clear", "stop_wait", "stopped"}
    /\ \A c \in Conns : conns[c].st = "idle"

\* the thread left the loop while pluginStop stood between its closesocket
\* and g_serverSocket = INVALID_SOCKET, and closed the handle a second time
C31_ClosedAgainAtLoopExit ==
    /\ listenSock.closes = 2
    /\ srvPc = "exited"
    /\ \E c \in Conns : conns[c].st # "idle"

\* the handle of a closed socket is left in g_serverSocket after the thread
\* has exited
C31_StaleHandle ==
    /\ srvPc = "exited"
    /\ listenSock.st = "closed"
    /\ listenSock.closes = 1
    /\ g_serverSocket = "sock"
    /\ hostPc = "loaded"

\* both characters of every full pair of data are hexadecimal digits
RECURSIVE PairsAreHex(_, _)
PairsAreHex(data, i) ==
    IF i + 1 > Len(data) THEN TRUE
    ELSE DigitVal(data[i]) < 16 /\ DigitVal(data[i + 1]) < 16 /\ PairsAreHex(data, i + 2)

\* the bytes the pairs of hexadecimal digits of data denote
RECURSIVE BytesDenoted(_, _)
BytesDenoted(data, i) ==
    IF i + 1 > Len(data) THEN << >>
    ELSE <<16 * DigitVal(data[i]) + DigitVal(data[i + 1])>> \o BytesDenoted(data, i + 2)

\* the engine writes invoked for connection c
WritesOf(c) ==
    SelectSeq(conns[c].calls, LAMBDA call : call[1] = "Script::Memory::Write")

\* /memory/write has returned for connection c, whose addr and data are
\* present and whose addr is a number
MemoryWriteReturned(c) ==
    /\ Returned(c)
    /\ conns[c].path = <<"/","m","e","m","o","r","y","/","w","r","i","t","e">>
    /\ {<<"a","d","d","r">>, <<"d","a","t","a">>} \subseteq DOMAIN conns[c].params
    /\ Stoull(conns[c].params[<<"a","d","d","r">>]).status = "ok"

\* C32: /memory/write invokes the engine write once, with the bytes the pairs
\* of hex digits of data denote (a trailing odd digit ignored); when a pair of
\* data is not two hex digits an error response is sent and the engine write
\* is not invoked.
C32_WritesTheBytesDenoted ==
    \A c \in Conns :
        MemoryWriteReturned(c) =>
            LET data == conns[c].params[<<"d","a","t","a">>]
            IN  IF PairsAreHex(data, 1)
                THEN /\ Len(WritesOf(c)) = 1
                     /\ WritesOf(c)[1][2][2] = BytesDenoted(data, 1)
                ELSE /\ WritesOf(c) = << >>
                     /\ Len(conns[c].sent) = 1
                     /\ Response(c).code >= 400

\* C32: data=9z was written as the byte 0x09 and answered 200
C32_PartialPairWritten ==
    \E c \in Conns :
        /\ MemoryWriteReturned(c)
        /\ conns[c].params[<<"d","a","t","a">>] = <<"9","z">>
        /\ WritesOf(c) = <<<<"Script::Memory::Write", <<FromNat(4096), <<9>>>>>>>>
        /\ Response(c).code = 200

\* data=0a-1 was written as the bytes 0x0a 0xff
C32_SignedPairWritten ==
    \E c \in Conns :
        /\ MemoryWriteReturned(c)
        /\ conns[c].params[<<"d","a","t","a">>] = <<"0","a","-","1">>
        /\ WritesOf(c)[1][2][2] = <<10, 255>>

\* with every pair two hex digits the bytes denoted are written, and a pair
\* that does not start with a hex digit, a sign or white space is answered
\* 500 with no write
C32_HexPairsWritten ==
    \A c \in Conns :
        MemoryWriteReturned(c) =>
            LET data == conns[c].params[<<"d","a","t","a">>]
            IN  /\ PairsAreHex(data, 1) =>
                     /\ Len(WritesOf(c)) = 1
                     /\ WritesOf(c)[1][2][2] = BytesDenoted(data, 1)
                     /\ Response(c).code = 200
                /\ data = <<"z","z">> => WritesOf(c) = << >> /\ Response(c).code = 500

\* the handler of /memory/search is inside a FindMem call for connection c
Searching(c) ==
    /\ conns[c].st = "engine"
    /\ conns[c].handled
    /\ conns[c].path = <<"/","m","e","m","o","r","y","/","s","e","a","r","c","h">>

\* C33: the loop of /memory/search ends and a response is written, for every
\* start, size and max that were sent (size 0 and a negative max among them),
\* when every FindMem call returns 0 or an address of the range it was asked
\* to search: each further call starts above the one before and below the
\* end address, which stays as it is, and a handler that is inside a call
\* comes to its response.
C33_SearchLoopEnds ==
    /\ \A c \in Conns : Searching(c) ~> (conns[c].nsent = 1)
    /\ [][\A c \in Conns :
            (Searching(c) /\ conns'[c].st = "engine" /\ conns'[c] # conns[c]) =>
                /\ Less(conns[c].locals.searchAddr, conns'[c].locals.searchAddr)
                /\ Less(conns'[c].locals.searchAddr, conns'[c].locals.endAddr)
                /\ conns'[c].locals.endAddr = conns[c].locals.endAddr
                /\ Len(conns'[c].locals.results) = Len(conns[c].locals.results) + 1]_vars

\* C33: with max=-1 the search of a range of two bytes found both, made no
\* third call and was answered
C33_RangeExhausted ==
    \E c \in Conns :
        /\ SearchAnswered(c)
        /\ <<"m","a","x">> \in DOMAIN conns[c].params
        /\ conns[c].params[<<"m","a","x">>] = <<"-","1">>
        /\ conns[c].params[<<"s","i","z","e">>] = <<"2">>
        /\ Len(conns[c].calls) = 2
        /\ ResultEntries(Response(c).body) = <<<<"0","x","1","0","0","0">>, <<"0","x","1","0","0","1">>>>

\* x + y is 2^w or more for the words x and y of the build with w bits
SumWraps(x, y, a) ==
    LET t1 == x[1] + y[1]
        t2 == x[2] + y[2] + (t1 \div LimbBase)
        t3 == x[3] + y[3] + (t2 \div LimbBase)
        t4 == x[4] + y[4] + (t3 \div LimbBase)
    IN  (IF a = 32 THEN t2 ELSE t4) >= LimbBase

\* HandleRequest was called for /memory/search on connection c with start,
\* size and pattern accepted
SearchStarted(c) ==
    /\ Dispatched(c)
    /\ conns[c].path = <<"/","m","e","m","o","r","y","/","s","e","a","r","c","h">>
    /\ GetParamAddr(conns[c].params, <<"s","t","a","r","t">>, arch).ok
    /\ GetParamAddr(conns[c].params, <<"s","i","z","e">>, arch).ok
    /\ <<"p","a","t","t","e","r","n">> \in DOMAIN conns[c].params

\* C34: in /memory/search the end address is start + size modulo 2^w: when the
\* sum wraps, the end is not above start, no engine call is made and the
\* answer is 200 with count 0; and every FindMem call starts below the end
\* address with a length that is not zero, is at most size and reaches the
\* end address exactly.
C34_NoSearchOfWrappedRange ==
    \A c \in Conns :
        SearchStarted(c) =>
            LET start == GetParamAddr(conns[c].params, <<"s","t","a","r","t">>, arch).value
                size == GetParamAddr(conns[c].params, <<"s","i","z","e">>, arch).value
                calls == conns[c].calls
            IN  /\ SumWraps(start, size, arch) =>
                     /\ calls = << >>
                     /\ conns[c].sent =
                            <<SendResponse(200, AppJson, <<"{","\"","c","o","u","n","t","\"",":","0",",","\"","r","e","s","u","l","t","s","\"",":","[","]","}">>)>>
                /\ \A i \in 1..Len(calls) :
                     /\ calls[i][1] = "Script::Pattern::FindMem"
                     /\ ~SumWraps(start, size, arch)
                     /\ ~Less(calls[i][2][1], start)
                     /\ calls[i][2][2] # Zero
                     /\ ~Less(size, calls[i][2][2])
                     /\ ~SumWraps(calls[i][2][1], calls[i][2][2], arch)
                     /\ AddWord(calls[i][2][1], calls[i][2][2], arch) = AddWord(start, size, arch)

\* C34: start=0x1000 with size=0xffffffffffffffff, whose sum wraps to 0xfff
\* on both builds, was answered with count 0 and no engine call
C34_WrappedRangeAnswered ==
    \E c \in Conns :
        /\ SearchStarted(c)
        /\ Returned(c)
        /\ conns[c].params[<<"s","i","z","e">>] = <<"0","x","f","f","f","f","f","f","f","f","f","f","f","f","f","f","f","f">>
        /\ SumWraps(FromNat(4096), GetParamAddr(conns[c].params, <<"s","i","z","e">>, arch).value, arch)
        /\ conns[c].calls = << >>
        /\ Response(c).body = <<"{","\"","c","o","u","n","t","\"",":","0",",","\"","r","e","s","u","l","t","s","\"",":","[","]","}">>

\* a second call was made, for the rest of the range
C34_RestOfRangeSearched ==
    \E c \in Conns :
        /\ SearchStarted(c)
        /\ Len(conns[c].calls) = 2
        /\ conns[c].calls[2][2][1] = FromNat(4097)
        /\ conns[c].calls[2][2][2] = FromNat(1)

\* the texts x and y differ at most in the case of their letters
SameIgnoringCase(x, y) ==
    /\ Len(x) = Len(y)
    /\ \A i \in 1..Len(x) :
          \/ x[i] = y[i]
          \/ \E k \in 1..26 : {x[i], y[i]} = {LowerChars[k], UpperChars[k]}

\* the names of the set a request of connection c is validated against, and
\* the parameter that carries the name
NameSetOf(c) ==
    IF conns[c].path \in {<<"/","f","l","a","g","/","g","e","t">>, <<"/","f","l","a","g","/","s","e","t">>} THEN FlagNames
    ELSE IF arch = 64 THEN Registers32 \cup Registers64
    ELSE Registers32

NameKeyOf(c) ==
    IF conns[c].path \in {<<"/","f","l","a","g","/","g","e","t">>, <<"/","f","l","a","g","/","s","e","t">>} THEN <<"f","l","a","g">> ELSE <<"n","a","m","e">>

\* HandleRequest was called for a register or flag request of connection c
\* that names a register or flag
Named(c) ==
    /\ Dispatched(c)
    /\ conns[c].path \in {<<"/","r","e","g","i","s","t","e","r","/","g","e","t">>, <<"/","r","e","g","i","s","t","e","r","/","s","e","t">>, <<"/","f","l","a","g","/","g","e","t">>, <<"/","f","l","a","g","/","s","e","t">>}
    /\ NameKeyOf(c) \in DOMAIN conns[c].params

\* C35: /register/get, /register/set, /flag/get and /flag/set validate the
\* name against the fixed set of the build, ignoring case, before any engine
\* call: a name outside the set is answered 400 text/plain with no engine
\* call, and a name inside the set, in whatever case, selects the register or
\* flag of the set with that name (the get requests reach their engine call,
\* and every engine call made is for that register or flag).
C35_NamesValidatedIgnoringCase ==
    \A c \in Conns :
        Named(c) =>
            LET name == conns[c].params[NameKeyOf(c)]
                matches == {n \in NameSetOf(c) : SameIgnoringCase(name, n)}
            IN  IF matches = {}
                THEN /\ conns[c].calls = << >>
                     /\ Len(conns[c].sent) = 1
                     /\ Response(c).code = 400
                     /\ Response(c).contentType = <<"t","e","x","t","/","p","l","a","i","n">>
                ELSE /\ \A i \in 1..Len(conns[c].calls) :
                            conns[c].calls[i][2][1] \in matches
                     /\ conns[c].path \in {<<"/","r","e","g","i","s","t","e","r","/","g","e","t">>, <<"/","f","l","a","g","/","g","e","t">>}
                            => Len(conns[c].calls) = 1
                     /\ \A i \in 1..Len(conns[c].sent) :
                            ~Contains(conns[c].sent[i].body, <<"U","n","k","n","o","w","n"," ","r","e","g","i","s","t","e","r">>)
                            /\ ~Contains(conns[c].sent[i].body, <<"I","n","v","a","l","i","d"," ","f","l","a","g"," ","n","a","m","e">>)

\* C35: on the 64-bit build /register/get?name=RAX read the register rax, and
\* on the 32-bit build it was answered 400 with no engine call
C35_UpperCaseNameSelected ==
    \E c \in Conns :
        /\ Named(c)
        /\ Returned(c)
        /\ conns[c].path = <<"/","r","e","g","i","s","t","e","r","/","g","e","t">>
        /\ conns[c].params[<<"n","a","m","e">>] = <<"R","A","X">>
        /\ IF arch = 64
           THEN conns[c].calls = <<<<"Script::Register::Get", <<<<"r","a","x">>>>>>>>
                /\ Response(c).code = 200
           ELSE conns[c].calls = << >>
                /\ Response(c) = SendResponse(400, <<"t","e","x","t","/","p","l","a","i","n">>, <<"U","n","k","n","o","w","n"," ","r","e","g","i","s","t","e","r",":"," ","R","A","X">>)

\* /flag/set?flag=ZF&value=true set the flag zf
C35_UpperCaseFlagSelected ==
    \E c \in Conns :
        /\ Named(c) /\ Returned(c)
        /\ conns[c].path = <<"/","f","l","a","g","/","s","e","t">>
        /\ conns[c].params[<<"f","l","a","g">>] = <<"Z","F">>
        /\ conns[c].calls = <<<<"Script::Flag::Set", <<<<"z","f">>, TRUE>>>>>>
        /\ Response(c).code = 200

\* the parameter key of connection c is absent, or present with a text that
\* is no number (for an int) or none of the words for true and false
NoInt(c, key) ==
    key \in DOMAIN conns[c].params => Stoi(conns[c].params[key], 0).status # "ok"

NoBool(c, key) ==
    key \in DOMAIN conns[c].params =>
        conns[c].params[key] \notin {<<"t","r","u","e">>, <<"1">>, <<"y","e","s">>, <<"f","a","l","s","e">>, <<"0">>, <<"n","o">>}

\* the parameters addr (or start and end) of connection c are addresses
AddrGiven(c, keys) == \A key \in keys : GetParamAddr(conns[c].params, key, arch).ok

\* no response of connection c is a 400, and its first engine call is op
Proceeds(c, op) ==
    /\ \A i \in 1..Len(conns[c].sent) : conns[c].sent[i].code # 400
    /\ Len(conns[c].calls) >= 1
    /\ conns[c].calls[1][1] = op

\* C36: an optional parameter (manual, max, offset, instruction_count) that is
\* absent, or present with a text that does not parse, gives no 400: a
\* handler whose required parameters are there goes on to its engine call
\* with the default manual = false, max = 100, offset = 0,
\* instruction_count = 0.
C36_OptionalParameterDefaults ==
    \A c \in Conns :
        Dispatched(c) =>
            /\ (conns[c].path = <<"/","s","t","a","c","k","/","p","e","e","k">> /\ NoInt(c, <<"o","f","f","s","e","t">>)) =>
                    /\ Proceeds(c, "Script::Stack::Peek")
                    /\ conns[c].calls[1][2] = <<0>>
            /\ (conns[c].path = <<"/","f","u","n","c","t","i","o","n","/","a","d","d">> /\ AddrGiven(c, {<<"s","t","a","r","t">>, <<"e","n","d">>})) =>
                    /\ Proceeds(c, "Script::Function::Add")
                    /\ NoBool(c, <<"m","a","n","u","a","l">>) => conns[c].calls[1][2][3] = FALSE
                    /\ NoInt(c, <<"i","n","s","t","r","u","c","t","i","o","n","_","c","o","u","n","t">>) => conns[c].calls[1][2][4] = 0
            /\ (conns[c].path = <<"/","b","o","o","k","m","a","r","k","/","s","e","t">> /\ AddrGiven(c, {<<"a","d","d","r">>})) =>
                    /\ Proceeds(c, "Script::Bookmark::Set")
                    /\ NoBool(c, <<"m","a","n","u","a","l">>) => conns[c].calls[1][2][2] = FALSE
            /\ (/\ conns[c].path \in {<<"/","l","a","b","e","l","/","s","e","t">>, <<"/","c","o","m","m","e","n","t","/","s","e","t">>}
                /\ AddrGiven(c, {<<"a","d","d","r">>})
                /\ <<"t","e","x","t">> \in DOMAIN conns[c].params) =>
                    /\ Len(conns[c].calls) >= 1
                    /\ \A i \in 1..Len(conns[c].sent) : conns[c].sent[i].code # 400
                    /\ NoBool(c, <<"m","a","n","u","a","l">>) => conns[c].calls[1][2][3] = FALSE
            /\ (SearchStarted(c) /\ NoInt(c, <<"m","a","x">>)) =>
                    /\ \A i \in 1..Len(conns[c].sent) : conns[c].sent[i].code # 400
                    /\ conns[c].st = "engine" => conns[c].locals.maxResults = 100
                    /\ Less(GetParamAddr(conns[c].params, <<"s","t","a","r","t">>, arch).value,
                            AddWord(GetParamAddr(conns[c].params, <<"s","t","a","r","t">>, arch).value,
                                    GetParamAddr(conns[c].params, <<"s","i","z","e">>, arch).value, arch))
                          => Proceeds(c, "Script::Pattern::FindMem")

\* C36: /memory/search with max=zz is inside its first FindMem call with
\* maxResults = 100
C36_UnparsableMaxSearches ==
    \E c \in Conns :
        /\ SearchStarted(c)
        /\ <<"m","a","x">> \in DOMAIN conns[c].params
        /\ conns[c].params[<<"m","a","x">>] = <<"z","z">>
        /\ conns[c].st = "engine"
        /\ conns[c].locals.maxResults = 100
        /\ Len(conns[c].calls) = 1

\* /bookmark/set with manual=zz set the bookmark with manual = false
C36_UnparsableManualSets ==
    \E c \in Conns :
        /\ Returned(c)
        /\ conns[c].path = <<"/","b","o","o","k","m","a","r","k","/","s","e","t">>
        /\ conns[c].params = (<<"a","d","d","r">> :> <<"0","x","1","0","0","0">> @@ <<"m","a","n","u","a","l">> :> <<"z","z">>)
        /\ conns[c].calls = <<<<"Script::Bookmark::Set", <<FromNat(4096), FALSE>>>>>>
        /\ Response(c).code = 200

\* /function/add with instruction_count=zz and /stack/peek with offset=zz
\* called the engine with 0
C36_UnparsableCountAdds ==
    \E c \in Conns :
        /\ Returned(c)
        /\ \/ /\ conns[c].path = <<"/","f","u","n","c","t","i","o","n","/","a","d","d">>
              /\ <<"i","n","s","t","r","u","c","t","i","o","n","_","c","o","u","n","t">> \in DOMAIN conns[c].params
              /\ conns[c].params[<<"i","n","s","t","r","u","c","t","i","o","n","_","c","o","u","n","t">>] = <<"z","z">>
              /\ Len(conns[c].calls) = 1
              /\ conns[c].calls[1][2][4] = 0
           \/ /\ conns[c].path = <<"/","s","t","a","c","k","/","p","e","e","k">>
              /\ conns[c].params = (<<"o","f","f","s","e","t">> :> <<"z","z">>)
              /\ conns[c].calls = <<<<"Script::Stack::Peek", <<0>>>>>>

\* the target of the request line, between its first and second space
TargetOf(request) ==
    LET line == SubStr(request, 1, FindStr(request, <<"\r","\n">>) - 1)
        methodEnd == Find(line, " ", 1)
    IN  SubStr(line, methodEnd + 1, Find(line, " ", methodEnd + 1) - methodEnd - 1)

\* the request with the same target sent as GET with HTTP/1.1, the Host
\* header and no body
PlainGet(request) == RequestText(<<"G","E","T">>, TargetOf(request), << >>)

\* what of a connection shows which handler ran and what it did
Observed(cn) ==
    [st |-> cn.st, path |-> cn.path, params |-> cn.params, sent |-> cn.sent,
     calls |-> cn.calls, op |-> cn.op, args |-> cn.args, locals |-> cn.locals]

\* for every request that is dispatched and either build, what the GET request
\* with the same target shows after recv
ObservedOfPlainGet ==
    [request \in {q \in WellFormed \cup Malformed : ParseRequest(q).ok}, a \in {32, 64} |->
        Observed(Received(Accepted, PlainGet(request), a))]

\* C37: dispatch depends on the path and the decoded query alone: a request
\* is handled as the GET request with the same target, no body and the Host
\* header is (the same handler, the same responses, the same engine calls up
\* to the first engine call), and each further step of the handler is the one
\* the engine's answer gives from the path and the handler's locals, whatever
\* the method, the version token, the headers and the body are.
C37_DispatchByPathAndQuery ==
    [][\A c \in Conns :
          /\ (conns[c] = Accepted /\ conns'[c].handled) =>
                Observed(conns'[c]) = ObservedOfPlainGet[conns'[c].request, arch]
          /\ (conns[c].st = "engine" /\ conns'[c] # conns[c]) =>
                \E r \in EngineAnswers(conns[c].op, conns[c].args, conns[c].locals, registers) :
                    Observed(conns'[c]) =
                        Observed(Advance([conns[c] EXCEPT !.method = <<"G","E","T">>, !.body = << >>,
                                                          !.request = PlainGet(conns[c].request)],
                                         HandleRequestResume(conns[c].path, conns[c].locals, r)))]_vars

\* C37: POST /register/get?name=eax HTTP/1.0 with another header and the body
\* name=foo was answered as GET /register/get?name=eax is
C37_PostWithBodyAnswered ==
    \E c \in Conns :
        /\ Returned(c)
        /\ conns[c].method = <<"P","O","S","T">>
        /\ conns[c].body = <<"n","a","m","e","=","f","o","o">>
        /\ Contains(conns[c].request, <<" ","H","T","T","P","/","1",".","0","\r","\n","X","-","T","e","s","t",":"," ","1","\r","\n">>)
        /\ conns[c].path = <<"/","r","e","g","i","s","t","e","r","/","g","e","t">>
        /\ conns[c].params = (<<"n","a","m","e">> :> <<"e","a","x">>)
        /\ conns[c].calls = <<<<"Script::Register::Get", <<<<"e","a","x">>>>>>>>
        /\ conns[c].sent = <<RegisterReadOf(<<"e","a","x">>, registers)>>

\* DELETE /memory/write with the version token HTTP/2 and a body wrote the
\* bytes of the query
C37_DeleteWithBodyWrites ==
    \E c \in Conns :
        /\ Returned(c)
        /\ conns[c].method = <<"D","E","L","E","T","E">>
        /\ conns[c].body = <<"d","a","t","a","=","z","z">>
        /\ WritesOf(c) = <<<<"Script::Memory::Write", <<FromNat(4096), <<144, 144>>>>>>>>

\* the engine operations that change the debuggee or the debugger's database
MutatingOps ==
    {"DbgCmdExecDirect", "Script::Register::Set", "Script::Memory::Write",
     "Script::Pattern::SearchAndReplaceMem", "Script::Debug::Run", "Script::Debug::Pause",
     "Script::Debug::StepIn", "Script::Debug::StepOver", "Script::Debug::StepOut",
     "Script::Debug::SetBreakpoint", "Script::Debug::DeleteBreakpoint",
     "Script::Label::Set", "Script::Label::Delete", "Script::Comment::Set",
     "Script::Comment::Delete", "Script::Function::Add", "Script::Function::Delete",
     "Script::Bookmark::Set", "Script::Bookmark::Delete", "Script::Stack::Push",
     "Script::Stack::Pop", "Script::Assembler::AssembleMem", "Script::Flag::Set"}

\* the endpoints that read
ReadOnlyPaths ==
    {<<"/","s","t","a","t","u","s">>, <<"/","r","e","g","i","s","t","e","r","/","g","e","t">>, <<"/","m","e","m","o","r","y","/","r","e","a","d">>, <<"/","d","i","s","a","s","m">>, <<"/","m","o","d","u","l","e","s">>,
     <<"/","s","y","m","b","o","l","s","/","l","i","s","t">>, <<"/","l","a","b","e","l","/","g","e","t">>, <<"/","l","a","b","e","l","/","l","i","s","t">>, <<"/","c","o","m","m","e","n","t","/","g","e","t">>,
     <<"/","c","o","m","m","e","n","t","/","l","i","s","t">>, <<"/","f","u","n","c","t","i","o","n","/","g","e","t">>, <<"/","f","u","n","c","t","i","o","n","/","l","i","s","t">>, <<"/","b","o","o","k","m","a","r","k","/","g","e","t">>,
     <<"/","b","o","o","k","m","a","r","k","/","l","i","s","t">>, <<"/","s","t","a","c","k","/","p","e","e","k">>, <<"/","f","l","a","g","/","g","e","t">>, <<"/","f","l","a","g","s","/","g","e","t","_","a","l","l">>,
     <<"/","p","a","t","t","e","r","n","/","f","i","n","d","_","m","e","m">>, <<"/","m","e","m","o","r","y","/","s","e","a","r","c","h">>, <<"/","a","s","s","e","m","b","l","e","r","/","a","s","s","e","m","b","l","e">>}

\* connection c carries a request to an endpoint that reads, or one that was
\* answered 400 or 404
ReadOrRejected(cn) ==
    \/ cn.path \in ReadOnlyPaths
    \/ \E i \in 1..Len(cn.sent) : cn.sent[i].code \in {400, 404}

\* C38: a request that is answered 400 or 404 and a request to one of the
\* endpoints that read invoke no engine operation that changes registers,
\* memory, breakpoints, flags, the stack or the annotations, and no step of
\* their handling changes a register.
C38_ReadsAndRejectionsChangeNothing ==
    /\ [](\A c \in Conns :
            (Dispatched(c) /\ ReadOrRejected(conns[c])) =>
                \A i \in 1..Len(conns[c].calls) : conns[c].calls[i][1] \notin MutatingOps)
    /\ [][\A c \in Conns :
            (conns'[c] # conns[c] /\ conns'[c].handled /\ conns'[c].st # "closed"
             /\ ReadOrRejected(conns'[c]))
                => registers' = registers]_vars

\* C38: /stack/peek was answered 200 after Script::Stack::Peek, its only
\* engine call
C38_PeekAnswered ==
    \E c \in Conns :
        /\ Returned(c)
        /\ conns[c].path = <<"/","s","t","a","c","k","/","p","e","e","k">>
        /\ conns[c].calls = <<<<"Script::Stack::Peek", <<0>>>>>>
        /\ Response(c).code = 200

\* /register/set with a name outside the set was answered 400 with no engine
\* call and the registers as they were
C38_RejectedSetLeavesRegisters ==
    \E c \in Conns :
        /\ Returned(c)
        /\ conns[c].path = <<"/","r","e","g","i","s","t","e","r","/","s","e","t">>
        /\ conns[c].params = (<<"n","a","m","e">> :> <<"f","o","o">> @@ <<"v","a","l","u","e">> :> <<"0","x","1","0","0","0">>)
        /\ Response(c).code = 400
        /\ conns[c].calls = << >>
        /\ \A reg \in DOMAIN registers : registers[reg] = Zero

\* the characters of a JSON text outside its strings: brackets, separators,
\* the digits and sign of a decimal number, the letters of true, false, null
OutsideChars ==
    {"{", "}", "[", "]", ":", ",", "-", "0", "1", "2", "3", "4", "5", "6", "7", "8", "9",
     "t", "r", "u", "e", "f", "a", "l", "s", "n"}

RECURSIVE JsonScan(_, _, _, _)
\* A JSON reader's pass over body from position i, outside a string (open = 0)
\* or inside the string that the quote at open opened: a quote opens a
\* string, inside a string a backslash takes the next character with it and a
\* quote closes the string. ok: every string is closed, every backslash
\* starts an escape of JSON, and nothing but structure stands outside the
\* strings; strings: the insides of the strings, in their order.
JsonScan(body, i, open, strings) ==
    LET quote == Find(body, "\"", i)
        backslash == Find(body, "\\", i)
        Bad == [ok |-> FALSE, strings |-> strings]
    IN  IF open = 0
        THEN IF \E j \in i..(IF quote = 0 THEN Len(body) ELSE quote - 1) :
                    body[j] \notin OutsideChars
             THEN Bad
             ELSE IF quote = 0 THEN [ok |-> TRUE, strings |-> strings]
             ELSE JsonScan(body, quote + 1, quote, strings)
        ELSE IF quote = 0 THEN Bad
        ELSE IF backslash # 0 /\ backslash < quote
        THEN IF body[backslash + 1] \in {"\"", "\\", "/", "b", "f", "n", "r", "t"}
             THEN JsonScan(body, backslash + 2, open, strings)
             ELSE Bad
        ELSE JsonScan(body, quote + 1, 0,
                      Append(strings, SubStr(body, open + 1, quote - open - 1)))

\* what a JSON reader gets for the string member key of body
StringMember(body, key) ==
    LET strings == JsonScan(body, 1, 0, << >>).strings
        k == CHOOSE k \in 1..(Len(strings) - 1) : strings[k] = key
    IN  JsonUnescape(strings[k + 1])

\* the parameters a handler writes into its JSON response, with the member
\* that carries them
Echoes ==
    {<<<<"/","c","m","d">>, <<"c","m","d">>, <<"c","o","m","m","a","n","d">>>>,
     <<<<"/","r","e","g","i","s","t","e","r","/","g","e","t">>, <<"n","a","m","e">>, <<"r","e","g","i","s","t","e","r">>>>,
     <<<<"/","f","l","a","g","/","g","e","t">>, <<"f","l","a","g">>, <<"f","l","a","g">>>>,
     <<<<"/","m","i","s","c","/","p","a","r","s","e","_","e","x","p","r","e","s","s","i","o","n">>, <<"e","x","p","r">>, <<"e","x","p","r","e","s","s","i","o","n">>>>,
     <<<<"/","m","i","s","c","/","r","e","s","o","l","v","e","_","l","a","b","e","l">>, <<"l","a","b","e","l">>, <<"l","a","b","e","l">>>>,
     <<<<"/","m","i","s","c","/","g","e","t","_","p","r","o","c","_","a","d","d","r","e","s","s">>, <<"m","o","d","u","l","e">>, <<"m","o","d","u","l","e">>>>,
     <<<<"/","m","i","s","c","/","g","e","t","_","p","r","o","c","_","a","d","d","r","e","s","s">>, <<"a","p","i">>, <<"a","p","i">>>>}

\* C39: no parameter of a request puts an unescaped quote or backslash into a
\* JSON string of a response: every application/json body reads as JSON
\* (each string closed, each backslash an escape, only structure outside the
\* strings), and a parameter that a 200 response carries is read back from
\* its member as it was sent.
C39_EchoesStayInsideStrings ==
    \A c \in Conns :
        \A i \in 1..Len(conns[c].sent) :
            conns[c].sent[i].contentType = <<"a","p","p","l","i","c","a","t","i","o","n","/","j","s","o","n">> =>
                /\ JsonScan(conns[c].sent[i].body, 1, 0, << >>).ok
                /\ \A e \in Echoes :
                      (conns[c].path = e[1] /\ conns[c].sent[i].code = 200) =>
                          StringMember(conns[c].sent[i].body, e[3]) = conns[c].params[e[2]]

\* C39: /cmd?cmd=%5C%22, a backslash and a quote, was answered with both
\* escaped inside the member command
C39_QuoteAndBackslashEscaped ==
    \E c \in Conns :
        /\ Returned(c)
        /\ conns[c].path = <<"/","c","m","d">>
        /\ conns[c].params = (<<"c","m","d">> :> <<"\\","\"">>)
        /\ Contains(Response(c).body, <<",","\"","c","o","m","m","a","n","d","\"",":","\"","\\","\\","\\","\"","\"","}">>)
        /\ StringMember(Response(c).body, <<"c","o","m","m","a","n","d">>) = <<"\\","\"">>

\* /register/get?name=RAX was answered with the name as it was sent, which
\* the set of names admits
C39_ValidatedNameEchoed ==
    \E c \in Conns :
        /\ Returned(c)
        /\ conns[c].path = <<"/","r","e","g","i","s","t","e","r","/","g","e","t">>
        /\ Response(c).code = 200
        /\ StringMember(Response(c).body, <<"r","e","g","i","s","t","e","r">>) = <<"R","A","X">>

====
